---- MODULE Spec2Model ----
(***************************************************************************)
(* A model of the analyzers of lifeos_guardian/ai_analyzer.py, of the      *)
(* DatabaseManager of database.py and of the mission and timer handlers of *)
(* main.py; the latter two are described where their sections begin.      *)
(*                                                                         *)
(* Each analyzer is a method of AIAnalyzer that reads its arguments and    *)
(* the random module and returns a dict.  An analyzer is modelled as an    *)
(* operator computing the returned dict from the arguments and the random  *)
(* draws, and as an action that applies it to the inputs held in the       *)
(* state.  Python dicts are functions whose DOMAIN is the set of keys,     *)
(* Python lists are sequences.  Metric values are integers (the code only  *)
(* compares them with integer literals).  The Russian string literals of   *)
(* the source are written letter by letter in Latin transliteration, the   *)
(* original being given in the comment beside each.                        *)
(***************************************************************************)
EXTENDS Integers, Sequences, FiniteSets, TLC

VARIABLES
    pc,             \* "ready": the inputs are chosen; "done": the analyzer
                    \* returned; "raised": it raised an exception
    user_metrics,   \* analyze_balance's argument: metric -> {field -> number}
    balance,        \* analyze_balance's return value
    journal_text,   \* analyze_activity's argument activity_text: a str
    analysis,       \* analyze_activity's return value
    goal,           \* analyze_goal_progress's argument: a dict
    now,            \* what datetime.now() returns, in ticks
    goal_report,    \* analyze_goal_progress's return value
    exception,      \* the exception the analyzer raised, or None
    logged_actions, \* analyze_values_alignment's argument user_actions
    declared_values,\* analyze_values_alignment's argument user_values
    alignment,      \* analyze_values_alignment's return value
    last_call,      \* the last call of an analyzer, where calls are recorded
    remembered,     \* an earlier call of an analyzer
    today,          \* the date the clock of the database shows, in days
    sqlite_sequence,\* table -> the largest id AUTOINCREMENT has given out
    users,          \* the rows of table users
    daily_missions, \* the rows of table daily_missions
    timers,         \* the rows of table timers
    user_values_rows, \* the rows of table user_values
    daily_checkins, \* the rows of table daily_checkins
    challenges,     \* the rows of table challenges
    db_call,        \* the last call of a DatabaseManager method or of a
                    \* handler of the bot, with what it returned
    shown_keyboard  \* Telegram account -> the callback data of the buttons
                    \* of the missions keyboard the bot last showed it

balance_vars == <<user_metrics, balance>>

activity_vars == <<journal_text, analysis>>

goal_vars == <<goal, now, goal_report, exception>>

values_vars == <<logged_actions, declared_values, alignment>>

call_log == <<remembered, last_call>>

\* The database file of DatabaseManager and the log of the last call on it.
db_vars ==
    <<today, sqlite_sequence, users, daily_missions, timers,
      user_values_rows, daily_checkins, challenges, db_call,
      shown_keyboard>>

vars ==
    <<pc, balance_vars, activity_vars, goal_vars, values_vars, call_log,
      db_vars>>

---------------------------------------------------------------------------
(* Bounds of the explored inputs. *)

\* Metric values run from one unit below the lowest threshold the code
\* compares the metric with up to this many units above the highest one.
MaxAbove == 1

\* The texts analyze_activity is called with hold up to this many phrases.
MaxPhrases == 2

\* The current and target values of a goal run up to this number.
MaxGoalValue == 2

\* A day has this many ticks of the clock.
TicksPerDay == 2

\* Start dates, end dates and the clock run from tick 0 to this tick.
MaxTick == 5

\* analyze_values_alignment is called with up to this many actions
MaxActions == 5

\* and up to this many values.
MaxValues == 2

---------------------------------------------------------------------------
(* Python dict helpers. *)

EmptyDict == [k \in {} |-> 0]

\* d.get(k, default)
Get(d, k, default) == IF k \in DOMAIN d THEN d[k] ELSE default

---------------------------------------------------------------------------
(* analyze_balance *)

InsufficientSleep == "nedostatok sna"                     \* недостаток сна
ExcessSleep       == "izbytok sna"                        \* избыток сна
Overwork          == "pererabotki"                        \* переработки
FamilyDeficit     == "nedostatok vremeni s semqej"        \* недостаток времени с семьей
ExerciseDeficit   == "nedostatok fizicheskoj aktivnosti"  \* недостаток физической активности
LearningDeficit   == "nedostatok obucheniya"              \* недостаток обучения

\* увеличить продолжительность сна до 7-8 часов
SleepMoreAdvice == "uvelichitq prodolzhitelqnostq sna do 7-8 chasov"
\* оптимизировать режим сна до 7-8 часов
SleepLessAdvice == "optimizirovatq rezhim sna do 7-8 chasov"
\* ограничить рабочие часы до 8-9 в день
WorkAdvice      == "ogranichitq rabochie chasy do 8-9 v denq"
\* увеличить время с семьей до 1-2 часов в день
FamilyAdvice    == "uvelichitq vremya s semqej do 1-2 chasov v denq"
\* увеличить физическую активность до 3-4 раз в неделю
ExerciseAdvice  == "uvelichitq fizicheskuyu aktivnostq do 3-4 raz v nedelyu"
\* выделить хотя бы 15 минут в день на обучение
LearningAdvice  == "vydelitq hotya by 15 minut v denq na obuchenie"

\* недостаток сна → снижение продуктивности на работе
SleepProductivity == "nedostatok sna -> snizhenie produktivnosti na rabote"
\* недостаток физической активности → низкий уровень энергии
ExerciseEnergy    == "nedostatok fizicheskoj aktivnosti -> nizkij urovenq ehnergii"

\* перед сном 5 минут дыхательной гимнастики 4-7-8
SleepHabit    == "pered snom 5 minut dyhatelqnoj gimnastiki 4-7-8"
\* ежедневно 5 минут осознанного общения с членами семьи
FamilyHabit   == "ezhednevno 5 minut osoznannogo obscheniya s chlenami semqi"
\* ежедневно 5 минут простой зарядки
ExerciseHabit == "ezhednevno 5 minut prostoj zaryadki"
\* ежедневно 5 минут чтения профессиональной литературы
LearningHabit == "ezhednevno 5 minut chteniya professionalqnoj literatury"

reflection_questions ==
    << "Chto segodnya dalo tebe naibolqshee chuvstvo udovletvoreniya?",
       "Kakoe sobytie segodnya uluchshilo tvoe nastroenie?",
       "Kakuyu privychku ty hotel by ukrepitq zavtra?",
       "Chto ty uznal(a) o sebe segodnya?",
       "Kak ty mozheshq zavtra udelitq bolqshe vnimaniya svoej celi?" >>

\* Each check appends to issues and to recommendations together: it yields
\* the sequence of <<issue, recommendation>> pairs it appends (none or one).
SleepCheck(sleep_hours) ==
    IF sleep_hours < 6 THEN << <<InsufficientSleep, SleepMoreAdvice>> >>
    ELSE IF sleep_hours > 9 THEN << <<ExcessSleep, SleepLessAdvice>> >>
    ELSE << >>

\* WorkCheck with the correlation rule's limit of 8 in place of 9.
WorkCheckFromEight(work_hours) ==
    IF work_hours > 8 THEN << <<Overwork, WorkAdvice>> >> ELSE << >>

WorkCheck(work_hours) ==
    IF work_hours > 9 THEN << <<Overwork, WorkAdvice>> >> ELSE << >>

FamilyCheck(family_time) ==
    IF family_time < 5 THEN << <<FamilyDeficit, FamilyAdvice>> >> ELSE << >>

ExerciseCheck(exercise_time) ==
    IF exercise_time < 2 THEN << <<ExerciseDeficit, ExerciseAdvice>> >> ELSE << >>

\* LearningCheck with <= in place of <.
LearningCheckInclusive(learning_time) ==
    IF learning_time <= 15 THEN << <<LearningDeficit, LearningAdvice>> >> ELSE << >>

LearningCheck(learning_time) ==
    IF learning_time < 15 THEN << <<LearningDeficit, LearningAdvice>> >> ELSE << >>

\* Correlations with the overwork limit of 9 in place of 8 in the first rule.
CorrelationsFromNine(sleep_hours, work_hours, exercise_time, energy_level) ==
    (IF sleep_hours < 6 /\ work_hours > 9 THEN <<SleepProductivity>> ELSE << >>)
    \o (IF exercise_time < 2 /\ energy_level < 6 THEN <<ExerciseEnergy>> ELSE << >>)

Correlations(sleep_hours, work_hours, exercise_time, energy_level) ==
    (IF sleep_hours < 6 /\ work_hours > 8 THEN <<SleepProductivity>> ELSE << >>)
    \o (IF exercise_time < 2 /\ energy_level < 6 THEN <<ExerciseEnergy>> ELSE << >>)

\* MicroHabits with the exercise branch tried before the family branch.
MicroHabitsExerciseFirst(sleep_hours, family_time, exercise_time, learning_time) ==
    IF sleep_hours < 6 THEN <<SleepHabit>>
    ELSE IF exercise_time < 2 THEN <<ExerciseHabit>>
    ELSE IF family_time < 5 THEN <<FamilyHabit>>
    ELSE IF learning_time < 15 THEN <<LearningHabit>>
    ELSE << >>

MicroHabits(sleep_hours, family_time, exercise_time, learning_time) ==
    IF sleep_hours < 6 THEN <<SleepHabit>>
    ELSE IF family_time < 5 THEN <<FamilyHabit>>
    ELSE IF exercise_time < 2 THEN <<ExerciseHabit>>
    ELSE IF learning_time < 15 THEN <<LearningHabit>>
    ELSE << >>

\* The metrics analyze_balance extracts from the snapshot um, each with the
\* default it reads when the metric or its field is absent.
\* SleepHours with a default of 7 hours in place of 0.
SleepHoursDefaultSeven(um) == Get(Get(um, "sleep", EmptyDict), "average_hours", 7)
\* EnergyLevel with a default of 6 in place of 5.
EnergyLevelDefaultSix(um)  == Get(Get(um, "energy", EmptyDict), "level", 6)

SleepHours(um)   == Get(Get(um, "sleep", EmptyDict), "average_hours", 0)
WorkHours(um)    == Get(Get(um, "work", EmptyDict), "daily_average", 0)
FamilyTime(um)   == Get(Get(um, "family", EmptyDict), "weekly_total", 0)
ExerciseTime(um) == Get(Get(um, "exercise", EmptyDict), "weekly_times", 0)
LearningTime(um) == Get(Get(um, "learning", EmptyDict), "daily_minutes", 0)
EnergyLevel(um)  == Get(Get(um, "energy", EmptyDict), "level", 5)

\* The dict analyze_balance returns for the snapshot um when random.choice
\* picks the choice-th reflection question.
analyze_balance(um, choice) ==
    LET sleep_hours   == SleepHours(um)
        work_hours    == WorkHours(um)
        family_time   == FamilyTime(um)
        exercise_time == ExerciseTime(um)
        learning_time == LearningTime(um)
        appended      == SleepCheck(sleep_hours) \o WorkCheck(work_hours)
                         \o FamilyCheck(family_time) \o ExerciseCheck(exercise_time)
                         \o LearningCheck(learning_time)
    IN  [ critical_imbalances |-> [i \in 1..Len(appended) |-> appended[i][1]],
          correlations        |-> Correlations(sleep_hours, work_hours,
                                               exercise_time, EnergyLevel(um)),
          recommendations     |-> [i \in 1..Len(appended) |-> appended[i][2]],
          micro_habits        |-> MicroHabits(sleep_hours, family_time,
                                              exercise_time, learning_time),
          evening_reflection  |-> reflection_questions[choice] ]

---------------------------------------------------------------------------
(* Python str helpers.  A str is the sequence of its characters; a Cyrillic  *)
(* letter is written as its Latin transliteration, upper-case letters in     *)
(* capitals.                                                                 *)

UpperLetters ==
    <<"A", "B", "V", "G", "D", "E", "YO", "ZH", "Z", "I", "J", "K", "L", "M", "N", "O", "P", "R", "S", "T", "U", "F", "H", "C", "CH", "SH", "SCH", "QQ", "Y", "Q", "EH", "YU", "YA">>

LowerLetters ==
    <<"a", "b", "v", "g", "d", "e", "yo", "zh", "z", "i", "j", "k", "l", "m", "n", "o", "p", "r", "s", "t", "u", "f", "h", "c", "ch", "sh", "sch", "qq", "y", "q", "eh", "yu", "ya">>

\* str.lower() of one character, and of a str.
LowerChar(c) ==
    IF \E i \in 1..Len(UpperLetters) : UpperLetters[i] = c
    THEN LowerLetters[CHOOSE i \in 1..Len(UpperLetters) : UpperLetters[i] = c]
    ELSE c

Lower(text) == [i \in 1..Len(text) |-> LowerChar(text[i])]

\* keyword in text: keyword is a contiguous part of text.
Contains(text, keyword) ==
    \E i \in 0..(Len(text) - Len(keyword)) :
        \A j \in 1..Len(keyword) : text[i + j] = keyword[j]

\* any(word in text for word in words)
ContainsAny(text, words) == \E k \in 1..Len(words) : Contains(text, words[k])

---------------------------------------------------------------------------
(* analyze_activity *)

\* self.activity_categories: the categories in the dict's (insertion) order,
\* each with its keywords in list order, a keyword being the sequence of its
\* characters.
activity_categories ==
    << [ cat |-> "high_value", keywords |-> <<
            <<"s","e","m","e","j","n","y","j"," ","u","zh","i","n">>,  \* семейный ужин
            <<"z","v","o","n","o","k"," ","r","o","d","i","t","e","l","ya","m">>,  \* звонок родителям
            <<"ch","t","e","n","i","e"," ","k","n","i","g","i">>,  \* чтение книги
            <<"m","e","d","i","t","a","c","i","ya">>,  \* медитация
            <<"z","a","r","ya","d","k","a">>,  \* зарядка
            <<"p","r","o","g","u","l","k","a">>,  \* прогулка
            <<"r","a","b","o","t","a"," ","n","a","d"," ","p","r","o","e","k","t","o","m">>,  \* работа над проектом
            <<"u","ch","e","b","a">>,  \* учеба
            <<"o","b","sch","e","n","i","e"," ","s"," ","d","r","u","z","q","ya","m","i">>,  \* общение с друзьями
            <<"j","o","g","a">>,  \* йога
            <<"t","a","n","c","y">>,  \* танцы
            <<"r","i","s","o","v","a","n","i","e">>,  \* рисование
            <<"m","u","z","y","k","a">>,  \* музыка
            <<"o","b","u","ch","e","n","i","e">>,  \* обучение
            <<"ya","z","y","k","i">>,  \* языки
            <<"ch","t","e","n","i","e">>,  \* чтение
            <<"t","v","o","r","ch","e","s","t","v","o">>,  \* творчество
            <<"s","a","m","o","r","a","z","v","i","t","i","e">>   \* саморазвитие
         >> ],
       [ cat |-> "medium_value", keywords |-> <<
            <<"p","r","i","g","o","t","o","v","l","e","n","i","e"," ","e","d","y">>,  \* приготовление еды
            <<"u","b","o","r","k","a">>,  \* уборка
            <<"r","a","b","o","t","a">>,  \* работа
            <<"u","ch","e","b","a">>,  \* учеба
            <<"s","o","v","e","sch","a","n","i","e">>,  \* совещание
            <<"p","e","r","e","p","i","s","k","a">>,  \* переписка
            <<"p","l","a","n","i","r","o","v","a","n","i","e">>,  \* планирование
            <<"p","o","d","k","a","s","t","y">>,  \* подкасты
            <<"p","i","s","q","m","o">>,  \* письмо
            <<"i","z","u","ch","e","n","i","e">>,  \* изучение
            <<"p","r","a","k","t","i","k","a">>,  \* практика
            <<"u","r","o","k","i">>,  \* уроки
            <<"v","e","b","i","n","a","r">>   \* вебинар
         >> ],
       [ cat |-> "low_value", keywords |-> <<
            <<"s","k","r","o","l","l","i","n","g"," ","l","e","n","t","y">>,  \* скроллинг ленты
            <<"p","r","o","s","m","o","t","r"," ","s","e","r","i","a","l","a">>,  \* просмотр сериала
            <<"i","g","r","y">>,  \* игры
            <<"n","o","v","o","s","t","i">>,  \* новости
            <<"ch","t","e","n","i","e"," ","k","o","m","m","e","n","t","a","r","i","e","v">>,  \* чтение комментариев
            <<"p","e","r","e","h","o","d","y"," ","p","o"," ","s","s","y","l","k","a","m">>,  \* переходы по ссылкам
            <<"b","e","z","d","e","l","q","e">>,  \* безделье
            <<"s","o","c","s","e","t","i">>,  \* соцсети
            <<"v","i","d","e","o">>,  \* видео
            <<"r","a","z","v","l","e","ch","e","n","i","ya">>   \* развлечения
         >> ],
       [ cat |-> "negative_value", keywords |-> <<
            <<"s","s","o","r","a">>,  \* ссора
            <<"k","o","n","f","l","i","k","t">>,  \* конфликт
            <<"t","o","k","s","i","ch","n","y","e"," ","r","a","z","g","o","v","o","r","y">>,  \* токсичные разговоры
            <<"ch","t","e","n","i","e"," ","n","e","g","a","t","i","v","n","y","h"," ","n","o","v","o","s","t","e","j">>,  \* чтение негативных новостей
            <<"v","r","e","d","n","y","e"," ","p","r","i","v","y","ch","k","i">>,  \* вредные привычки
            <<"s","s","o","r","y">>,  \* ссоры
            <<"o","b","s","u","zh","d","e","n","i","e">>,  \* обсуждение
            <<"n","e","g","a","t","i","v">>,  \* негатив
            <<"a","g","r","e","s","s","i","ya">>   \* агрессия
         >> ] >>

\* self.scientific_facts: topic bucket -> its list of facts.
scientific_facts ==
    [ morning_routine |-> <<
          "Issledovanie Garvardskoj medicinskoj shkoly pokazyvaet, chto utrennie ritualy povyshayut produktivnostq na 25%",
          "Utrennie 15 minut zaryadki uvelichivayut urovenq ehnergii na 47% na vesq denq (Mayo Clinic, 2025)",
          "Lyudi s utrennimi ritualami na 34% menee podverzheny stressu (Stanford Research, 2024)" >>,
      family_time |-> <<
          "30 minut kachestvennogo obscheniya s blizkimi snizhayut urovenq stressa na 43% (Garvardskaya medicinskaya shkola, 2024)",
          "Deti, kotorye edyat s roditelyami, na 34% luchshe uchatsya v shkole (UNICEF, 2025)",
          "Kachestvennoe vremya s semqej povyshaet immunitet na 22% (Mayo Clinic, 2024)" >>,
      deep_work |-> <<
          "90 minut nepreryvnoj koncentracii dayut rezulqtat, ravnyj 8 chasam raboty s pereklyucheniyami (Stanford Research Center, 2025)",
          "Kolichestvo pereklyuchenij zadach snizhaet produktivnostq na 40% (Microsoft Research, 2024)",
          "Sessii glubokoj raboty bolee 60 minut uluchshayut nejroplastichnostq (Harvard Medical, 2025)" >>,
      sleep |-> <<
          "15 minut meditacii pered snom uluchshayut kachestvo sna na 27% (Mayo Clinic, 2024)",
          "Glubokij son pomogaet konsolidirovatq pamyatq i vosstanavlivatq organizm (Harvard Sleep Study, 2025)",
          "Regulyarnyj son 7-8 chasov snizhaet risk depressii na 27% (Lancet, 2025)" >>,
      exercise |-> <<
          "15 minut ezhednevnoj zaryadki snizhayut risk depressii na 27% i uvelichivayut prodolzhitelqnostq zhizni na 3 goda (Lancet, 2025)",
          "Fizicheskaya aktivnostq 30 minut v denq povyshaet kognitivnuyu funkciyu na 15% (Mayo Clinic, 2025)",
          "Regulyarnye trenirovki snizhayut risk hronicheskih zabolevanij na 35% (Harvard Health, 2024)" >>,
      hydration |-> <<
          "Dostatochnoe potreblenie vody uluchshaet koncentraciyu na 23% (Harvard Health, 2025)",
          "Obezvozhivanie snizhaet urovenq ehnergii na 25% uzhe cherez 2 chasa (Mayo Clinic, 2024)",
          "Pitqevaya voda uluchshaet kognitivnye funkcii i yasnostq myshleniya (Stanford Medicine, 2025)" >> ]

GenericRecommendation ==
    "Issledovaniya pokazyvayut, chto osoznannoe otnoshenie k svoim dejstviyam znachitelqno uluchshaet kachestvo zhizni."

\* alternatives: the suggestion table in the dict's order; the returned string
\* is the table's text after the fixed prefix.
alternatives ==
    << [ key |-> <<"p","r","o","s","m","o","t","r"," ","s","e","r","i","a","l","a">>,  \* просмотр сериала
         alt |-> "(i) Alqternativa: vmesto prosmotra seriala provedite 30 minut s semqej ili prochitajte glavu interesnoj knigi" ],
       [ key |-> <<"s","k","r","o","l","l","i","n","g"," ","l","e","n","t","y">>,  \* скроллинг ленты
         alt |-> "(i) Alqternativa: vmesto skrollinga potratqte 10 minut na osoznannoe dyhanie ili korotkuyu progulku" ],
       [ key |-> <<"i","g","r","y">>,  \* игры
         alt |-> "(i) Alqternativa: zamenite chastq igrovogo vremeni na fizicheskuyu aktivnostq ili obuchenie novomu navyku" ],
       [ key |-> <<"n","o","v","o","s","t","i">>,  \* новости
         alt |-> "(i) Alqternativa: ogranichqte potreblenie novostej 15 minutami v denq i zamenite ostalqnoe vremya na pozitivnye zanyatiya" ] >>

\* The word lists of _map_activity_to_category_key, in the order of its if/elif chain.
topic_words ==
    << [ bucket |-> "family_time", words |-> <<
            <<"s","e","m","q","ya">>,  \* семья
            <<"z","v","o","n","o","k">>,  \* звонок
            <<"o","b","sch","e","n","i","e">>,  \* общение
            <<"v","s","t","r","e","ch","a">>,  \* встреча
            <<"v","r","e","m","ya"," ","s">>   \* время с
         >> ],
       [ bucket |-> "deep_work", words |-> <<
            <<"r","a","b","o","t","a">>,  \* работа
            <<"p","r","o","e","k","t">>,  \* проект
            <<"z","a","d","a","ch","a">>,  \* задача
            <<"g","l","u","b","o","k","a","ya">>,  \* глубокая
            <<"f","o","k","u","s">>,  \* фокус
            <<"r","a","b","o","t","a">>   \* работа
         >> ],
       [ bucket |-> "sleep", words |-> <<
            <<"s","o","n">>,  \* сон
            <<"n","o","ch","q">>,  \* ночь
            <<"o","t","d","y","h">>,  \* отдых
            <<"r","a","s","s","l","a","b","l","e","n","i","e">>,  \* расслабление
            <<"m","e","d","i","t","a","c","i","ya">>   \* медитация
         >> ],
       [ bucket |-> "exercise", words |-> <<
            <<"z","a","r","ya","d","k","a">>,  \* зарядка
            <<"s","p","o","r","t">>,  \* спорт
            <<"b","e","g">>,  \* бег
            <<"t","r","e","n","i","r","o","v","k","a">>,  \* тренировка
            <<"d","v","i","zh","e","n","i","e">>,  \* движение
            <<"u","p","r","a","zh","n","e","n","i","ya">>   \* упражнения
         >> ],
       [ bucket |-> "hydration", words |-> <<
            <<"v","o","d","a">>,  \* вода
            <<"n","a","p","i","t","o","k">>,  \* напиток
            <<"g","i","d","r","a","t","a","c","i","ya">>   \* гидратация
         >> ],
       [ bucket |-> "morning_routine", words |-> <<
            <<"u","t","r","o">>,  \* утро
            <<"r","i","t","u","a","l">>,  \* ритуал
            <<"n","a","ch","a","l","o"," ","d","n","ya">>   \* начало дня
         >> ] >>

\* The loops of analyze_activity over the categories from the c-th on: the
\* first category with a keyword contained in activity_lower, "unknown" when
\* there is none.
RECURSIVE CategoryFrom(_, _)
CategoryFrom(activity_lower, c) ==
    IF c > Len(activity_categories) THEN "unknown"
    ELSE IF ContainsAny(activity_lower, activity_categories[c].keywords)
         THEN activity_categories[c].cat
         ELSE CategoryFrom(activity_lower, c + 1)

\* The loops without the outer break: every category is tried and the last
\* one with a keyword contained in activity_lower stays.
RECURSIVE LastCategoryFrom(_, _)
LastCategoryFrom(activity_lower, c) ==
    IF c < 1 THEN "unknown"
    ELSE IF ContainsAny(activity_lower, activity_categories[c].keywords)
         THEN activity_categories[c].cat
         ELSE LastCategoryFrom(activity_lower, c - 1)

CategoryWithoutBreak(activity_lower) ==
    LastCategoryFrom(activity_lower, Len(activity_categories))

\* The category loop started at the second category.
CategorySkippingFirst(activity_lower) == CategoryFrom(activity_lower, 2)

Category(activity_lower) == CategoryFrom(activity_lower, 1)

\* The value_score ranges with the upper ends one too high.
ValueScoresTooHigh(category) ==
    CASE category = "high_value"     -> 7..11
      [] category = "medium_value"   -> 4..8
      [] category = "low_value"      -> 1..5
      [] category = "negative_value" -> 0..3
      [] OTHER                       -> {5}

\* The values value_score can take: random.randint(a, b) of the category's
\* branch, the initial 5 when no branch is taken.
ValueScores(category) ==
    CASE category = "high_value"     -> 7..10
      [] category = "medium_value"   -> 4..7
      [] category = "low_value"      -> 1..4
      [] category = "negative_value" -> 0..2
      [] OTHER                       -> {5}

\* _generate_ai_analysis: the f-string as its parts, <<head, activity, tail>>
\* (the head's leading emoji left out).
generate_ai_analysis(activity, category, value_score) ==
    CASE category = "high_value" ->
            << "Vysokaya cennostq: ", activity,
               " sposobstvuet vashemu blagopoluchiyu i razvitiyu. EHto dejstvie svyazano s polozhitelqnymi dolgosrochnymi rezulqtatami." >>
      [] category = "medium_value" ->
            << "Srednyaya cennostq: ", activity,
               " polezno, no mozhet bytq optimizirovano dlya bolqshego vozdejstviya na vashe blagopoluchie." >>
      [] category = "low_value" ->
            << "Nizkaya cennostq: ", activity,
               " zanimaet vremya, kotoroe mozhno ispolqzovatq bolee produktivno dlya vashih celej i blagopoluchiya." >>
      [] category = "negative_value" ->
            << "Vrednaya aktivnostq: ", activity,
               " mozhet negativno vliyatq na vashe psihicheskoe sostoyanie i obschee blagopoluchie." >>
      [] OTHER ->
            << "Neopredelennaya cennostq: ", activity,
               " trebuet dopolnitelqnogo analiza dlya opredeleniya ego vozdejstviya na vashu zhiznq." >>

\* _map_activity_to_category_key: the bucket of the first word list, from the
\* t-th on, with a word contained in activity_lower; None when there is none.
None == "None"

RECURSIVE TopicFrom(_, _)
TopicFrom(activity_lower, t) ==
    IF t > Len(topic_words) THEN None
    ELSE IF ContainsAny(activity_lower, topic_words[t].words)
         THEN topic_words[t].bucket
         ELSE TopicFrom(activity_lower, t + 1)

\* As map_activity_to_category_key, without the family_time word list.
MapSkippingFamilyTime(activity, category) == TopicFrom(Lower(activity), 2)

map_activity_to_category_key(activity, category) == TopicFrom(Lower(activity), 1)

\* The loop of _get_scientific_recommendation over the alternatives from the
\* a-th on: the suggestion of the first key contained in activity_lower, None
\* when there is none.
RECURSIVE AlternativeFrom(_, _)
AlternativeFrom(activity_lower, a) ==
    IF a > Len(alternatives) THEN None
    ELSE IF Contains(activity_lower, alternatives[a].key)
         THEN alternatives[a].alt
         ELSE AlternativeFrom(activity_lower, a + 1)

\* As get_scientific_recommendation, looking for an alternative whatever the
\* category.
RecommendationForAnyCategory(activity, category, fact) ==
    LET alternative  == AlternativeFrom(Lower(activity), 1)
        category_key == map_activity_to_category_key(activity, category)
    IN  IF alternative # None THEN alternative
        ELSE IF category_key # None /\ category_key \in DOMAIN scientific_facts
             THEN scientific_facts[category_key][fact]
             ELSE GenericRecommendation

\* _get_scientific_recommendation, random.choice picking the fact-th fact.
get_scientific_recommendation(activity, category, fact) ==
    LET alternative  == IF category = "low_value" \/ category = "negative_value"
                        THEN AlternativeFrom(Lower(activity), 1)
                        ELSE None
        category_key == map_activity_to_category_key(activity, category)
    IN  IF alternative # None THEN alternative
        ELSE IF category_key # None /\ category_key \in DOMAIN scientific_facts
             THEN scientific_facts[category_key][fact]
             ELSE GenericRecommendation

\* The draws random.choice can make in get_scientific_recommendation: an
\* index into the bucket's facts when a fact is chosen, else the single
\* value 1 (random is not called).
FactDraws(activity, category) ==
    LET category_key == map_activity_to_category_key(activity, category)
    IN  IF category_key # None /\ category_key \in DOMAIN scientific_facts
        THEN 1..Len(scientific_facts[category_key])
        ELSE {1}

\* The dict analyze_activity returns for activity_text when random.randint
\* returns score and random.choice picks the fact-th fact.
analyze_activity(activity_text, score, fact) ==
    LET activity_lower == Lower(activity_text)
        category       == Category(activity_lower)
    IN  [ activity    |-> activity_text,
          category    |-> category,
          value_score |-> score,
          ai_analysis |-> generate_ai_analysis(activity_text, category, score),
          scientific_recommendation |->
              get_scientific_recommendation(activity_text, category, fact) ]

---------------------------------------------------------------------------
(* Numbers and dates of analyze_goal_progress.                            *)
(*                                                                         *)
(* The quotients the code computes with / are kept as exact fractions in  *)
(* lowest terms.  A datetime is a whole number of ticks, TicksPerDay of   *)
(* them to a day, and timedelta.days is the number of whole days of a     *)
(* difference, rounded down.                                              *)

Abs(n) == IF n < 0 THEN -n ELSE n

RECURSIVE GCD(_, _)
GCD(a, b) == IF b = 0 THEN a ELSE GCD(b, a % b)

\* n / d for d # 0.
Ratio(n, d) ==
    LET g == GCD(Abs(n), Abs(d))
        s == IF d < 0 THEN -1 ELSE 1
    IN  [ num |-> (s * n) \div g, den |-> (s * d) \div g ]

\* r * s
Times(r, s) == Ratio(r.num * s.num, r.den * s.den)

\* r < s
Less(r, s) == r.num * s.den < s.num * r.den

\* max(r, s)
MaxOf(r, s) == IF Less(r, s) THEN s ELSE r

\* timedelta.days of a difference of delta ticks
Days(delta) == delta \div TicksPerDay

---------------------------------------------------------------------------
(* analyze_goal_progress *)

ZeroDivisionError == "ZeroDivisionError"

GoalCurrentValue(g) == Get(g, "current_value", 0)

GoalTargetValue(g) == Get(g, "target_value", 1)

\* datetime.now() reads clock.
StartDate(g, clock) == Get(g, "start_date", clock)

\* A goal without an end date ends 30 days from now.
EndDate(g, clock) ==
    IF "end_date" \in DOMAIN g THEN g["end_date"] ELSE clock + 30 * TicksPerDay

TotalDuration(g, clock) == Days(EndDate(g, clock) - StartDate(g, clock))

ProgressPercentage(g) ==
    IF GoalTargetValue(g) > 0
    THEN Times(Ratio(GoalCurrentValue(g), GoalTargetValue(g)), Ratio(100, 1))
    ELSE Ratio(0, 1)

\* max(1, (datetime.now() - start_date).days)
DaysSinceStart(g, clock) ==
    LET elapsed == Days(clock - StartDate(g, clock))
    IN  IF elapsed > 1 THEN elapsed ELSE 1

Realistic(g, clock) ==
    LET total_duration == TotalDuration(g, clock)
    IN  IF total_duration > 0
        THEN LET required_daily_progress ==
                     Ratio(GoalTargetValue(g), total_duration)
                 current_daily_progress ==
                     Ratio(GoalCurrentValue(g), DaysSinceStart(g, clock))
             IN  ~ Less(current_daily_progress,
                        Times(required_daily_progress, Ratio(7, 10)))
        ELSE TRUE

\* The three tips; a formatted string is the tuple of its parts, a number
\* standing for its rendering with one decimal.
MotivationTechniques(g) ==
    << << "Razbejte celq na mikro-shagi: ", g["goal_name"], " -> 3 podceli po ",
          Ratio(GoalTargetValue(g), 3), " ", g["unit"] >>,
          \* Разбейте цель на микро-шаги: {goal_name} → 3 подцели по {target_value/3:.1f} {unit}
       << "Ispolqzujte pravilo 2 minut: nachnite s samogo malenqkogo dejstviya dlya ",
          g["goal_name"] >>,
          \* Используйте правило 2 минут: начните с самого маленького действия для {goal_name}
       << "Privyazhite k suschestvuyuschej privychke: posle [tekuschaya privychka] -> ",
          g["goal_name"] >> >>
          \* Привяжите к существующей привычке: после [текущая привычка] → {goal_name}

\* Whether target_value/(total_duration/7) divides by zero.
MicroPlanFails(g, clock) == TotalDuration(g, clock) = 0

\* День {day}: {goal_name} - {max(0.1, target_value/(total_duration/7)):.1f}{unit}
MicroPlanEntry(g, clock, day) ==
    << "Denq ", day, ": ", g["goal_name"], " - ",
       MaxOf(Ratio(1, 10), Ratio(7 * GoalTargetValue(g), TotalDuration(g, clock))),
       g["unit"] >>

MicroPlan(g, clock) == [ day \in 1..7 |-> MicroPlanEntry(g, clock, day) ]

\* As Adjustments, proposing the target itself.
AdjustmentsWithoutHalving(g, clock) ==
    IF Realistic(g, clock) THEN << >>
    ELSE << << "Rassmotretq prodlenie srokov ili umenqshenie celi do ",
               Ratio(GoalTargetValue(g), 1) >> >>

\* Рассмотреть продление сроков или уменьшение цели до {midpoint:.1f}
Adjustments(g, clock) ==
    IF Realistic(g, clock) THEN << >>
    ELSE << << "Rassmotretq prodlenie srokov ili umenqshenie celi do ",
               Ratio(2 * GoalCurrentValue(g)
                       + (GoalTargetValue(g) - GoalCurrentValue(g)), 2) >> >>

\* The dict analyze_goal_progress returns when the clock reads clock.
analyze_goal_progress(g, clock) ==
    [ progress_percentage |-> ProgressPercentage(g),
      timeline_realistic  |-> Realistic(g, clock),
      adjustments         |-> Adjustments(g, clock),
      motivation_tips     |-> MotivationTechniques(g),
      weekly_micro_plan   |-> MicroPlan(g, clock) ]

\* The exception analyze_goal_progress raises instead of returning, if any.
GoalProgressRaises(g, clock) ==
    IF MicroPlanFails(g, clock) THEN ZeroDivisionError ELSE None

---------------------------------------------------------------------------
(* analyze_values_alignment *)

\* text.replace(character, '')
Replace(text, character) == SelectSeq(text, LAMBDA c : c # character)

\* The test of line 209 for one action and one value.
MatchesValue(action, value) ==
    LET activity   == Lower(action["activity"])
        value_name == Lower(value["value_name"])
    IN  \/ Contains(activity, value_name)
        \/ ContainsAny(activity, << value_name,
                                    Replace(value_name, " "),
                                    Replace(value_name, "-") >>)

\* How often the two loops append the action under the key name: once for
\* every entry of user_values that carries this name and matches.
TimesAppended(action, name, user_values) ==
    Len(SelectSeq(user_values,
                  LAMBDA value : value["value_name"] = name
                                   /\ MatchesValue(action, value)))

\* value_activity_mapping[name] after the loops of lines 204-212.
RECURSIVE MappedActions(_, _, _)
MappedActions(name, user_actions, user_values) ==
    IF Len(user_actions) = 0 THEN << >>
    ELSE [ k \in 1..TimesAppended(Head(user_actions), name, user_values)
             |-> Head(user_actions) ]
         \o MappedActions(name, Tail(user_actions), user_values)

\* value_activity_mapping: a key exists once something was appended to it.
value_activity_mapping(user_actions, user_values) ==
    LET names == { user_values[i]["value_name"] : i \in 1..Len(user_values) }
    IN  [ name \in { n \in names :
                       Len(MappedActions(n, user_actions, user_values)) > 0 }
            |-> MappedActions(name, user_actions, user_values) ]

\* min(10, action_count * 2)
AlignmentScore(action_count) ==
    IF action_count * 2 < 10 THEN action_count * 2 ELSE 10

\* The record appended to alignment_report for one value.
ReportItem(value, mapping) ==
    LET value_name   == value["value_name"]
        action_count == IF value_name \in DOMAIN mapping
                        THEN Len(mapping[value_name]) ELSE 0
    IN  [ value           |-> value_name,
          importance      |-> value["importance_level"],
          action_count    |-> action_count,
          alignment_score |-> IF value_name \in DOMAIN mapping
                              THEN AlignmentScore(action_count) ELSE 0 ]

AlignmentReport(user_actions, user_values) ==
    LET mapping == value_activity_mapping(user_actions, user_values)
    IN  [ i \in 1..Len(user_values) |-> ReportItem(user_values[i], mapping) ]

\* As Misalignments, comparing the score with the whole importance.
MisalignmentsAgainstWholeImportance(alignment_report) ==
    SelectSeq(alignment_report,
              LAMBDA item : item.alignment_score < item.importance)

\* alignment_score < importance * 0.5, in whole numbers.
Misalignments(alignment_report) ==
    SelectSeq(alignment_report,
              LAMBDA item : 2 * item.alignment_score < item.importance)

\* The value the three questions name: the first misaligned value, or the
\* fixed name given when there is none.
QuestionValue(misalignments, fallback) ==
    IF Len(misalignments) > 0 THEN misalignments[1].value ELSE fallback

ValuesReflectionQuestions(misalignments) ==
    << << "Chto by vy sdelali segodnya, esli by znali, chto ehto polnostqyu sootvetstvuet vashej cennosti '",
          QuestionValue(misalignments, <<"s","e","m","q","ya">>), "'?" >>,
          \* Что бы вы сделали сегодня, если бы знали, что это полностью соответствует вашей ценности '{...}'?  (семья)
       << "Kakoe odno dejstvie segodnya mozhet luchshe vsego otrazitq vashu cennostq '",
          QuestionValue(misalignments, <<"z","d","o","r","o","v","q","e">>), "'?" >>,
          \* Какое одно действие сегодня может лучше всего отразить вашу ценность '{...}'?  (здоровье)
       << "Chto meshaet vam bolqshe zhitq v sootvetstvii s vashej cennostqyu '",
          QuestionValue(misalignments, <<"r","a","z","v","i","t","i","e">>), "'?" >> >>
          \* Что мешает вам больше жить в соответствии с вашей ценностью '{...}'?  (развитие)

\* The dict analyze_values_alignment returns.
analyze_values_alignment(user_actions, user_values) ==
    LET alignment_report == AlignmentReport(user_actions, user_values)
        misalignments    == Misalignments(alignment_report)
    IN  [ alignment_report     |-> alignment_report,
          misalignments        |-> misalignments,
          reflection_questions |-> ValuesReflectionQuestions(misalignments) ]

---------------------------------------------------------------------------
(* Snapshots: the arguments analyze_balance is called with. *)

MetricField ==
    [ sleep |-> "average_hours", work |-> "daily_average",
      family |-> "weekly_total", exercise |-> "weekly_times",
      learning |-> "daily_minutes", energy |-> "level" ]

MetricNames == DOMAIN MetricField

MetricValues ==
    [ sleep    |-> (6 - 1)..(9 + MaxAbove),
      work     |-> (8 - 1)..(9 + MaxAbove),
      family   |-> (5 - 1)..(5 + MaxAbove),
      exercise |-> (2 - 1)..(2 + MaxAbove),
      learning |-> (15 - 1)..(15 + MaxAbove),
      energy   |-> (6 - 1)..(6 + MaxAbove) ]

\* What a snapshot may hold for metric m: nothing (the empty set), or one
\* inner dict, itself empty or holding the metric's field.
MetricEntries(m) ==
    { {} } \cup { {EmptyDict} }
           \cup { { (MetricField[m] :> v) } : v \in MetricValues[m] }

Snapshot(entry) ==
    [ m \in {n \in MetricNames : entry[n] # {}} |-> CHOOSE d \in entry[m] : TRUE ]

NoActivity ==
    [ activity |-> << >>, category |-> "", value_score |-> 0,
      ai_analysis |-> << >>, scientific_recommendation |-> "" ]

NoBalance ==
    [ critical_imbalances |-> << >>, correlations |-> << >>,
      recommendations |-> << >>, micro_habits |-> << >>,
      evening_reflection |-> "" ]

NoGoalReport ==
    [ progress_percentage |-> Ratio(0, 1), timeline_realistic |-> TRUE,
      adjustments |-> << >>, motivation_tips |-> << >>,
      weekly_micro_plan |-> << >> ]

\* The analyzer is not called in this run: its argument and result are empty.
NoBalanceCall == user_metrics = EmptyDict /\ balance = NoBalance

NoActivityCall == journal_text = << >> /\ analysis = NoActivity

NoGoalCall ==
    /\ goal = EmptyDict
    /\ now = 0
    /\ goal_report = NoGoalReport
    /\ exception = None

\* The record that stands for no call.
NoCall == [ analyzer |-> None ]

\* No call is recorded in this run.
NoCallsRecorded == remembered = NoCall /\ last_call = NoCall

NoAlignment ==
    [ alignment_report |-> << >>, misalignments |-> << >>,
      reflection_questions |-> << >> ]

NoValuesCall ==
    /\ logged_actions = << >>
    /\ declared_values = << >>
    /\ alignment = NoAlignment

\* The tables init_db creates are empty and no row has been given an id.
EmptyDatabase ==
    /\ sqlite_sequence =
          [ t \in {"users", "daily_missions", "timers", "user_values",
                   "daily_checkins", "challenges"} |-> 0 ]
    /\ users = {}
    /\ daily_missions = {}
    /\ timers = {}
    /\ user_values_rows = {}
    /\ daily_checkins = {}
    /\ challenges = {}

\* The database is not used in this run.
NoDatabaseCall ==
    /\ today = 0
    /\ EmptyDatabase
    /\ db_call = NoCall
    /\ shown_keyboard = EmptyDict

\* No analyzer is called in this run.
NoAnalyzerCall ==
    /\ NoBalanceCall
    /\ NoActivityCall
    /\ NoGoalCall
    /\ NoValuesCall
    /\ NoCallsRecorded

analyzer_vars ==
    <<balance_vars, activity_vars, goal_vars, values_vars, call_log>>

InitBalance ==
    /\ pc = "ready"
    /\ \E s \in MetricEntries("sleep"), w \in MetricEntries("work"),
          f \in MetricEntries("family"), x \in MetricEntries("exercise"),
          l \in MetricEntries("learning"), e \in MetricEntries("energy") :
          user_metrics = Snapshot([ sleep |-> s, work |-> w, family |-> f,
                                    exercise |-> x, learning |-> l, energy |-> e ])
    /\ balance = NoBalance
    /\ NoActivityCall
    /\ NoGoalCall
    /\ NoValuesCall
    /\ NoCallsRecorded
    /\ NoDatabaseCall

AnalyzeBalance ==
    /\ pc = "ready"
    /\ \E choice \in 1..Len(reflection_questions) :
          balance' = analyze_balance(user_metrics, choice)
    /\ pc' = "done"
    /\ UNCHANGED user_metrics
    /\ UNCHANGED <<activity_vars, goal_vars, values_vars, call_log, db_vars>>

NextBalance == AnalyzeBalance

SpecBalance == InitBalance /\ [][NextBalance]_vars

---------------------------------------------------------------------------
(* Texts: the arguments analyze_activity is called with. *)

\* The phrases the texts are made of.
Phrases ==
    { <<"s","e","m","e","j","n","y","j"," ","u","zh","i","n">>,  \* семейный ужин
      <<"s","k","r","o","l","l","i","n","g"," ","l","e","n","t","y">>,  \* скроллинг ленты
      <<"o","b","e","d">>,  \* обед
      <<"u","ch","e","b","a">>,  \* учеба
      <<"r","a","b","o","t","a">>,  \* работа
      <<"s","s","o","r","a">>,  \* ссора
      <<"ch","t","e","n","i","e"," ","k","o","m","m","e","n","t","a","r","i","e","v">>,  \* чтение комментариев
      <<"N","o","v","o","s","t","i">>   \* Новости
    }

RECURSIVE Join(_)
Join(ps) ==
    IF Len(ps) = 0 THEN << >>
    ELSE IF Len(ps) = 1 THEN ps[1]
    ELSE ps[1] \o <<" ">> \o Join(Tail(ps))

\* The texts of up to MaxPhrases phrases, separated by spaces.
Texts == { Join(ps) : ps \in UNION { [1..n -> Phrases] : n \in 0..MaxPhrases } }

InitActivity ==
    /\ pc = "ready"
    /\ journal_text \in Texts
    /\ analysis = NoActivity
    /\ NoBalanceCall
    /\ NoGoalCall
    /\ NoValuesCall
    /\ NoCallsRecorded
    /\ NoDatabaseCall

\* A call of analyze_activity; the caller may call again with the same text.
AnalyzeActivity ==
    /\ pc \in {"ready", "done"}
    /\ LET category == Category(Lower(journal_text))
       IN  \E score \in ValueScores(category),
              fact \in FactDraws(journal_text, category) :
              analysis' = analyze_activity(journal_text, score, fact)
    /\ pc' = "done"
    /\ UNCHANGED journal_text
    /\ UNCHANGED <<balance_vars, goal_vars, values_vars, call_log, db_vars>>

NextActivity == AnalyzeActivity

SpecActivity == InitActivity /\ [][NextActivity]_vars

---------------------------------------------------------------------------
(* Texts that name topics: the arguments analyze_activity is called with  *)
(* where its scientific recommendation is examined.                       *)

TopicPhrases ==
    { <<"s","e","m","q","ya">>,          \* семья
      <<"r","a","b","o","t","a">>,       \* работа
      <<"s","o","n">>,                   \* сон
      <<"u","t","r","o">>,               \* утро
      <<"o","b","e","d">>,               \* обед
      <<"s","k","r","o","l","l","i","n","g"," ","l","e","n","t","y">>,  \* скроллинг ленты
      <<"N","o","v","o","s","t","i">>    \* Новости
    }

TopicTexts ==
    { Join(ps) : ps \in UNION { [1..n -> TopicPhrases] : n \in 0..MaxPhrases } }

InitRecommendation ==
    /\ pc = "ready"
    /\ journal_text \in TopicTexts
    /\ analysis = NoActivity
    /\ NoBalanceCall
    /\ NoGoalCall
    /\ NoValuesCall
    /\ NoCallsRecorded
    /\ NoDatabaseCall

SpecRecommendation == InitRecommendation /\ [][NextActivity]_vars

---------------------------------------------------------------------------
(* Goals: the arguments analyze_goal_progress is called with. *)

\* A key of a dict is absent (the empty set) or holds one of the values.
Optional(values) == { {} } \cup { {v} : v \in values }

\* The goal with the given optional keys; name and unit are always there.
GoalOf(current, target, start, end) ==
    LET given == [ current_value |-> current, target_value |-> target,
                   start_date |-> start, end_date |-> end ]
        keys  == { k \in DOMAIN given : given[k] # {} }
    IN  [ k \in keys \cup {"goal_name", "unit"} |->
            IF k = "goal_name" THEN "beg"              \* бег
            ELSE IF k = "unit" THEN "km"               \* км
            ELSE CHOOSE v \in given[k] : TRUE ]

Goals ==
    { GoalOf(c, t, s, e) :
        c \in Optional(0..MaxGoalValue), t \in Optional(-1..MaxGoalValue),
        s \in Optional(0..MaxTick), e \in Optional(0..MaxTick) }

InitGoal ==
    /\ pc = "ready"
    /\ goal \in Goals
    /\ now \in 0..MaxTick
    /\ goal_report = NoGoalReport
    /\ exception = None
    /\ NoBalanceCall
    /\ NoActivityCall
    /\ NoValuesCall
    /\ NoCallsRecorded
    /\ NoDatabaseCall

\* A call of analyze_goal_progress: it returns a dict or raises.
AnalyzeGoal ==
    /\ pc = "ready"
    /\ IF GoalProgressRaises(goal, now) = None
       THEN /\ goal_report' = analyze_goal_progress(goal, now)
            /\ pc' = "done"
            /\ UNCHANGED exception
       ELSE /\ exception' = GoalProgressRaises(goal, now)
            /\ pc' = "raised"
            /\ UNCHANGED goal_report
    /\ UNCHANGED <<goal, now>>
    /\ UNCHANGED <<balance_vars, activity_vars, values_vars, call_log, db_vars>>

NextGoal == AnalyzeGoal

SpecGoal == InitGoal /\ [][NextGoal]_vars

---------------------------------------------------------------------------
(* Actions and values: the arguments analyze_values_alignment is called   *)
(* with (the journal entries of the week and the user's values, which     *)
(* get_user_values returns by falling importance).                        *)

ValueNames ==
    { <<"S","e","m","q","ya">>,             \* Семья
      <<"m","o","j"," ","s","o","n">>       \* мой сон
    }

\* Importance levels run from 1 to 10; these are the lowest, the highest
\* and one between.
ImportanceLevels == {1, 5, 10}

\* The first text names both values, the second neither: it holds the
\* second name without its space.
ActionTexts ==
    { <<"S","e","m","q","ya"," ","i"," ","m","o","j"," ","s","o","n">>,  \* Семья и мой сон
      <<"m","o","j","s","o","n">>   \* мойсон
    }

ActionLists ==
    UNION { [1..n -> [activity : ActionTexts]] : n \in 0..MaxActions }

ValueLists ==
    { list \in UNION { [1..n -> [value_name : ValueNames,
                                 importance_level : ImportanceLevels]]
                         : n \in 0..MaxValues } :
        \A i \in 1..(Len(list) - 1) :
            list[i]["importance_level"] >= list[i + 1]["importance_level"] }

InitValues ==
    /\ pc = "ready"
    /\ logged_actions \in ActionLists
    /\ declared_values \in ValueLists
    /\ alignment = NoAlignment
    /\ NoBalanceCall
    /\ NoActivityCall
    /\ NoGoalCall
    /\ NoCallsRecorded
    /\ NoDatabaseCall

\* A call of analyze_values_alignment.
AnalyzeValues ==
    /\ pc = "ready"
    /\ alignment' = analyze_values_alignment(logged_actions, declared_values)
    /\ pc' = "done"
    /\ UNCHANGED <<logged_actions, declared_values>>
    /\ UNCHANGED <<balance_vars, activity_vars, goal_vars, call_log, db_vars>>

NextValues == AnalyzeValues

SpecValues == InitValues /\ [][NextValues]_vars

---------------------------------------------------------------------------
(* The analyzers called one after another, in any order, on the one       *)
(* AIAnalyzer object (ai_analyzer, line 423), while the clock advances.   *)
(* The arguments are chosen at the start and passed to every call.  Of    *)
(* the calls made, the state keeps the last one and one earlier call,     *)
(* chosen freely: the analyzer called, its arguments, the random draws,   *)
(* the clock and what the call returned or raised.                        *)

\* The record of a call.
Call(analyzer, input, draws, outcome) ==
    [ analyzer |-> analyzer, input |-> input, draws |-> draws,
      at |-> now, outcome |-> outcome ]

\* A snapshot short of sleep.
SomeSnapshot == [ sleep |-> [average_hours |-> 5], work |-> [daily_average |-> 9] ]

SomeText == <<"s","o","n">>     \* сон

\* A goal of two days, and a goal without dates.
SomeGoals ==
    { GoalOf({1}, {2}, {0}, {2 * TicksPerDay}),
      GoalOf({1}, {2}, {}, {}) }

SomeActions ==
    << [ activity |-> <<"m","o","j","s","o","n">> ] >>   \* мойсон

SomeValues ==
    << [ value_name |-> <<"m","o","j"," ","s","o","n">>,  \* мой сон
         importance_level |-> 5 ] >>

InitCalls ==
    /\ pc = "ready"
    /\ user_metrics = SomeSnapshot
    /\ balance = NoBalance
    /\ journal_text = SomeText
    /\ analysis = NoActivity
    /\ goal \in SomeGoals
    /\ now = 0
    /\ goal_report = NoGoalReport
    /\ exception = None
    /\ logged_actions = SomeActions
    /\ declared_values = SomeValues
    /\ alignment = NoAlignment
    /\ NoCallsRecorded
    /\ NoDatabaseCall

\* The call is recorded as the last one; the call that was the last one
\* may become the remembered one.  The caller keeps the outcome nowhere
\* else.
Record(call) ==
    /\ last_call' = call
    /\ \/ UNCHANGED remembered
       \/ last_call # NoCall /\ remembered' = last_call
    /\ UNCHANGED <<balance, analysis, goal_report, exception, alignment>>
    /\ UNCHANGED db_vars

\* The clock advances by one tick.
Tick ==
    /\ now < MaxTick
    /\ now' = now + 1
    /\ UNCHANGED <<pc, goal, goal_report, exception>>
    /\ UNCHANGED <<balance_vars, activity_vars, values_vars, call_log, db_vars>>

CallBalance ==
    /\ \E choice \in 1..Len(reflection_questions) :
          Record(Call("analyze_balance", user_metrics, <<choice>>,
                      analyze_balance(user_metrics, choice)))
    /\ pc' = "done"
    /\ UNCHANGED <<user_metrics, journal_text, goal, now,
                   logged_actions, declared_values>>

CallActivity ==
    /\ LET category == Category(Lower(journal_text))
       IN  \E score \in ValueScores(category),
              fact \in FactDraws(journal_text, category) :
              Record(Call("analyze_activity", journal_text, <<score, fact>>,
                          analyze_activity(journal_text, score, fact)))
    /\ pc' = "done"
    /\ UNCHANGED <<user_metrics, journal_text, goal, now,
                   logged_actions, declared_values>>

CallGoal ==
    /\ IF GoalProgressRaises(goal, now) = None
       THEN /\ Record(Call("analyze_goal_progress", goal, << >>,
                           analyze_goal_progress(goal, now)))
            /\ pc' = "done"
       ELSE /\ Record(Call("analyze_goal_progress", goal, << >>,
                           GoalProgressRaises(goal, now)))
            /\ pc' = "raised"
    /\ UNCHANGED <<user_metrics, journal_text, goal, now,
                   logged_actions, declared_values>>

CallValues ==
    /\ Record(Call("analyze_values_alignment",
                   <<logged_actions, declared_values>>, << >>,
                   analyze_values_alignment(logged_actions, declared_values)))
    /\ pc' = "done"
    /\ UNCHANGED <<user_metrics, journal_text, goal, now,
                   logged_actions, declared_values>>

NextCalls == Tick \/ CallBalance \/ CallActivity \/ CallGoal \/ CallValues

SpecCalls == InitCalls /\ [][NextCalls]_vars

---------------------------------------------------------------------------
(* DatabaseManager of lifeos_guardian/database.py.                         *)
(*                                                                         *)
(* A table is the set of its rows, a row a record of its columns; a column *)
(* that may be NULL and a return value that may be None hold a set of at   *)
(* most one value.  A method opens a connection, runs its statements,      *)
(* commits and closes, all inside one synchronous call, so a method is one *)
(* step.  It is modelled as an operator from the database it finds to the  *)
(* database it leaves and the value it returns, so that a handler calling  *)
(* several methods is the composition of their operators.  The clock is    *)
(* read in days: a timestamp column holds the date of its timestamp, and   *)
(* duration_minutes of a timer, which complete_timer computes from         *)
(* start_time and end_time alone, is not kept as a column of its own.      *)
(* The title and the description of a mission are texts no statement       *)
(* selects on; a mission is known by its type and its target.              *)
(***************************************************************************)

\* Users, as the ids of table users and as Telegram accounts, are 1..MaxUsers.
MaxUsers == 2

\* The clock runs from day 1 to this day.
MaxDay == 2

\* create_daily_missions is called with up to this many missions
MaxMissions == 2

\* and until daily_missions has given out this id.
MaxMissionId == 3

\* start_timer is called until timers has given out this id.
MaxTimerId == 2

UserIds == 1..MaxUsers

\* The tables as one value: what a method finds when it connects.
Database ==
    [ sqlite_sequence |-> sqlite_sequence,
      users           |-> users,
      daily_missions  |-> daily_missions,
      timers          |-> timers,
      user_values     |-> user_values_rows,
      daily_checkins  |-> daily_checkins,
      challenges      |-> challenges ]

\* conn.commit(): the tables become what the method made of them.
Commit(d) ==
    /\ sqlite_sequence' = d.sqlite_sequence
    /\ users' = d.users
    /\ daily_missions' = d.daily_missions
    /\ timers' = d.timers
    /\ user_values_rows' = d.user_values
    /\ daily_checkins' = d.daily_checkins
    /\ challenges' = d.challenges

\* What a method hands back: the database it leaves and its return value.
Returned(d, value) == [ db |-> d, value |-> value ]

\* The record of a call in db_call.
DbCall(method, args, value) ==
    [ method |-> method, args |-> args, value |-> value ]

\* INTEGER PRIMARY KEY AUTOINCREMENT: the id the next INSERT into the table
\* gets is one more than the largest the table has ever given out.
NextId(d, table) == d.sqlite_sequence[table] + 1

Sequenced(d, table, count) ==
    [ d.sqlite_sequence EXCEPT ![table] = @ + count ]

\* get_or_create_user: the row of the Telegram account, inserted when
\* there is none.
get_or_create_user(d, telegram_id) ==
    LET found == { u \in d.users : u.telegram_id = telegram_id }
        created == [ id |-> NextId(d, "users"), telegram_id |-> telegram_id ]
    IN  IF found # {}
        THEN Returned(d, CHOOSE u \in found : TRUE)
        ELSE Returned([ d EXCEPT !.users = @ \cup {created},
                                 !.sqlite_sequence = Sequenced(d, "users", 1) ],
                      created)

\* The rows create_daily_missions inserts on date created_at for a list of
\* mission dicts, the first row getting id first_id.
MissionRows(user_id, missions, first_id, created_at) ==
    { [ id |-> first_id + i - 1,
        user_id |-> user_id,
        mission_type |-> missions[i].type,
        target_duration |-> missions[i].target_duration,
        created_at |-> created_at ] : i \in 1..Len(missions) }

\* create_daily_missions: DELETE today's missions of the user, INSERT the
\* given ones.  No statement touches table timers.
create_daily_missions(d, user_id, missions) ==
    LET kept == { dm \in d.daily_missions :
                    ~ (dm.user_id = user_id /\ dm.created_at = today) }
        inserted == MissionRows(user_id, missions,
                                NextId(d, "daily_missions"), today)
    IN  Returned([ d EXCEPT !.daily_missions = kept \cup inserted,
                            !.sqlite_sequence =
                                Sequenced(d, "daily_missions", Len(missions)) ],
                 TRUE)

\* get_todays_missions: the rows of daily_missions dm LEFT JOIN timers t ON
\* dm.id = t.mission_id AND t.completed = 0, for today's missions of the
\* user: one row per joined timer, one row with NULLs for a mission with
\* none.  bool(NULL) is False.  The rows come ordered by dm.id; they are
\* kept as a set.
get_todays_missions(d, user_id) ==
    LET todays == { dm \in d.daily_missions :
                      dm.user_id = user_id /\ dm.created_at = today }
        joined(dm) == { t \in d.timers :
                          t.mission_id = dm.id /\ ~ t.completed }
        row(dm, active) ==
            [ id |-> dm.id, type |-> dm.mission_type,
              target_duration |-> dm.target_duration, is_active |-> active ]
    IN  UNION { IF joined(dm) = {}
                THEN { row(dm, FALSE) }
                ELSE { row(dm, t.is_active) : t \in joined(dm) }
                : dm \in todays }

\* start_timer without its SELECT: the timer is inserted whatever the table
\* holds.
StartTimerUnchecked(d, user_id, mission_id) ==
    Returned([ d EXCEPT !.timers =
                   @ \cup {[ id |-> NextId(d, "timers"),
                             user_id |-> user_id,
                             mission_id |-> mission_id,
                             start_time |-> today,
                             end_time |-> {},
                             is_active |-> TRUE,
                             completed |-> FALSE ]},
                        !.sqlite_sequence = Sequenced(d, "timers", 1) ],
             TRUE)

\* start_timer: when the user has an active timer for the mission return
\* False, else INSERT an active timer and return True.  completed takes
\* its DEFAULT 0.
start_timer(d, user_id, mission_id) ==
    LET found == { t \in d.timers : /\ t.user_id = user_id
                                    /\ t.mission_id = mission_id
                                    /\ t.is_active }
        inserted == [ id |-> NextId(d, "timers"),
                      user_id |-> user_id,
                      mission_id |-> mission_id,
                      start_time |-> today,
                      end_time |-> {},
                      is_active |-> TRUE,
                      completed |-> FALSE ]
    IN  IF found # {}
        THEN Returned(d, FALSE)
        ELSE Returned([ d EXCEPT !.timers = @ \cup {inserted},
                                 !.sqlite_sequence = Sequenced(d, "timers", 1) ],
                      TRUE)

\* complete_timer selecting on the id alone: a timer that is no longer
\* active is completed again.
CompleteTimerOfAnyState(d, timer_id) ==
    LET found == { t \in d.timers : t.id = timer_id }
        updated(t) == [ t EXCEPT !.end_time = {today},
                                 !.is_active = FALSE,
                                 !.completed = TRUE ]
    IN  IF found = {}
        THEN Returned(d, FALSE)
        ELSE Returned([ d EXCEPT !.timers =
                            { IF t.id = timer_id THEN updated(t) ELSE t :
                              t \in @ } ],
                      TRUE)

\* complete_timer: when no timer with this id is active return False, else
\* UPDATE it to ended, inactive and completed and return True.
complete_timer(d, timer_id) ==
    LET found == { t \in d.timers : t.id = timer_id /\ t.is_active }
        updated(t) == [ t EXCEPT !.end_time = {today},
                                 !.is_active = FALSE,
                                 !.completed = TRUE ]
    IN  IF found = {}
        THEN Returned(d, FALSE)
        ELSE Returned([ d EXCEPT !.timers =
                            { IF t.id = timer_id THEN updated(t) ELSE t :
                              t \in @ } ],
                      TRUE)

\* get_active_timer: fetchone() over the active timers of the user JOIN
\* their missions.  The SELECT has no ORDER BY, so fetchone() may hand
\* back any row of the result; the operator is the set of the dicts the
\* call may return, each as a set of one dict, or of none for None.
get_active_timer(d, user_id) ==
    LET result ==
            { [ id |-> t.id, start_time |-> t.start_time,
                mission_id |-> t.mission_id, mission_type |-> dm.mission_type ] :
              <<t, dm>> \in
                  { p \in d.timers \X d.daily_missions :
                      /\ p[1].mission_id = p[2].id
                      /\ p[1].user_id = user_id
                      /\ p[1].is_active } }
    IN  IF result = {} THEN { {} } ELSE { {r} : r \in result }

\* PERSONAL_GOALS['toprudik'] of config.py.
PERSONAL_GOALS ==
    [ sleep_target |-> 8, exercise_target |-> 45, family_time_target |-> 3,
      deep_work_target |-> 120, hydration_target |-> 3,
      weekly_exercise_days |-> 5, weekly_family_days |-> 7,
      weekly_deep_work_days |-> 5 ]

\* The list of mission dicts initialize_daily_missions of main.py builds
\* from the goals: one mission for each target the goals hold, hours in
\* minutes and litres in glasses of 250 ml.
PersonalMissions(user_goals) ==
    LET mission(key, type, duration) ==
            IF key \in DOMAIN user_goals
            THEN << [ type |-> type, target_duration |-> duration ] >>
            ELSE << >>
    IN  mission("sleep_target", "sleep", Get(user_goals, "sleep_target", 0) * 60)
        \o mission("exercise_target", "exercise",
                   Get(user_goals, "exercise_target", 0))
        \o mission("family_time_target", "family",
                   Get(user_goals, "family_time_target", 0) * 60)
        \o mission("deep_work_target", "deep_work",
                   Get(user_goals, "deep_work_target", 0))
        \o mission("hydration_target", "hydration",
                   (Get(user_goals, "hydration_target", 0) * 1000) \div 250)

---------------------------------------------------------------------------
(* Calls of the mission and timer methods of DatabaseManager, in any     *)
(* order: within one day (SpecTimers) and over the days (SpecMissions).  *)

\* The lists create_daily_missions is called with: the first missions of
\* the configured list.
MissionLists ==
    LET all == PersonalMissions(PERSONAL_GOALS)
    IN  { SubSeq(all, 1, n) :
          n \in 0..(IF MaxMissions < Len(all) THEN MaxMissions ELSE Len(all)) }

InitTimers ==
    /\ pc = "ready"
    /\ NoAnalyzerCall
    /\ today = 1
    /\ EmptyDatabase
    /\ db_call = NoCall
    /\ shown_keyboard = EmptyDict

\* Midnight passes.
NextDay ==
    /\ today < MaxDay
    /\ today' = today + 1
    /\ UNCHANGED <<sqlite_sequence, users, daily_missions, timers,
                   user_values_rows, daily_checkins, challenges, db_call>>
    /\ UNCHANGED <<pc, shown_keyboard, analyzer_vars>>

CreateDailyMissions ==
    /\ \E user_id \in UserIds, missions \in MissionLists :
          LET call == create_daily_missions(Database, user_id, missions)
          IN  /\ call.db.sqlite_sequence["daily_missions"] <= MaxMissionId
              /\ Commit(call.db)
              /\ db_call' = DbCall("create_daily_missions",
                                   <<user_id, missions>>, call.value)
    /\ UNCHANGED <<pc, today, shown_keyboard, analyzer_vars>>

StartTimer ==
    /\ \E user_id \in UserIds, mission_id \in 1..MaxMissionId :
          LET call == start_timer(Database, user_id, mission_id)
          IN  /\ call.db.sqlite_sequence["timers"] <= MaxTimerId
              /\ Commit(call.db)
              /\ db_call' = DbCall("start_timer",
                                   <<user_id, mission_id>>, call.value)
    /\ UNCHANGED <<pc, today, shown_keyboard, analyzer_vars>>

CompleteTimer ==
    /\ \E timer_id \in 1..MaxTimerId :
          LET call == complete_timer(Database, timer_id)
          IN  /\ Commit(call.db)
              /\ db_call' = DbCall("complete_timer", <<timer_id>>, call.value)
    /\ UNCHANGED <<pc, today, shown_keyboard, analyzer_vars>>

NextTimers == CreateDailyMissions \/ StartTimer \/ CompleteTimer

SpecTimers == InitTimers /\ [][NextTimers]_vars

NextMissions ==
    NextDay \/ CreateDailyMissions \/ StartTimer \/ CompleteTimer

SpecMissions == InitTimers /\ [][NextMissions]_vars

---------------------------------------------------------------------------
(* The handlers of lifeos_guardian/main.py that work on missions and       *)
(* timers.  A handler is a coroutine the dispatcher awaits; the database   *)
(* methods it calls are synchronous, so nothing runs between them and a    *)
(* handler is one step.  The callback data of a button is the list of the  *)
(* pieces split("_") finds in it, the id written into it being the number  *)
(* int() reads from the last piece.                                        *)
(***************************************************************************)

\* initialize_daily_missions is awaited up to this many times.
MaxInitializations == 2

\* f"start_timer_{id}" and f"stop_timer_{id}" as split("_") sees them.
CallbackData(verb, id) == << verb, "timer", id >>

\* create_missions_keyboard: a stop button carrying the id of the mission
\* for a mission that is active, a start button carrying it for one that
\* is not.  The buttons are kept as the set of their callback data.
create_missions_keyboard(missions) ==
    { IF mission.is_active
      THEN CallbackData("stop", mission.id)
      ELSE CallbackData("start", mission.id) : mission \in missions }

\* The body of the coroutine initialize_daily_missions.
initialize_daily_missions(d, user_id) ==
    create_daily_missions(d, user_id, PersonalMissions(PERSONAL_GOALS))

\* cmd_start.  Line 280 calls initialize_daily_missions(user['id']) without
\* await: the call makes a coroutine object and drops it, and the body of
\* the coroutine does not run.  What the handler does to the database is
\* get_or_create_user.
cmd_start(d, telegram_id) == get_or_create_user(d, telegram_id)

\* The handler start_timer: the mission id is read from the callback data
\* and db.start_timer(user['id'], mission_id) is called.
handle_start_timer(d, telegram_id, data) ==
    LET mission_id == data[3]
        user == get_or_create_user(d, telegram_id)
    IN  start_timer(user.db, user.value.id, mission_id)

\* The handler stop_timer: the number in the callback data is read as
\* timer_id and db.complete_timer(timer_id) is called; then the user is
\* looked up for the refresh.
handle_stop_timer(d, telegram_id, data) ==
    LET timer_id == data[3]
        success == complete_timer(d, timer_id)
        user == get_or_create_user(success.db, telegram_id)
    IN  Returned(user.db, success.value)

\* The refresh that ends show_missions, start_timer and stop_timer: the
\* message of the account gets the keyboard of today's missions.
Refreshed(d, telegram_id) ==
    LET user == get_or_create_user(d, telegram_id)
        keyboard == create_missions_keyboard(
                        get_todays_missions(user.db, user.value.id))
    IN  [ a \in DOMAIN shown_keyboard \cup {telegram_id} |->
            IF a = telegram_id THEN keyboard ELSE shown_keyboard[a] ]

\* The buttons the account can press.
Buttons(telegram_id, verb) ==
    { data \in Get(shown_keyboard, telegram_id, {}) : data[1] = verb }

InitBot == InitTimers

\* The coroutine initialize_daily_missions is awaited for a user of the
\* table.  No handler of main.py awaits it (see cmd_start); the step is
\* whatever else runs it on the database of the bot, and the only way rows
\* come into daily_missions.
InitializeDailyMissions ==
    /\ \E user \in users :
          LET call == initialize_daily_missions(Database, user.id)
          IN  /\ call.db.sqlite_sequence["daily_missions"] <=
                     MaxInitializations * Len(PersonalMissions(PERSONAL_GOALS))
              /\ Commit(call.db)
              /\ db_call' = DbCall("initialize_daily_missions",
                                   <<user.id>>, call.value)
    /\ UNCHANGED <<pc, today, shown_keyboard, analyzer_vars>>

\* /start arrives from an account.
CmdStart ==
    /\ \E telegram_id \in UserIds :
          LET call == cmd_start(Database, telegram_id)
          IN  /\ Commit(call.db)
              /\ db_call' = DbCall("cmd_start", <<telegram_id>>, call.value)
    /\ UNCHANGED <<pc, today, shown_keyboard, analyzer_vars>>

\* show_missions: the account asks for its missions and gets the keyboard.
ShowMissions ==
    /\ \E telegram_id \in UserIds :
          LET user == get_or_create_user(Database, telegram_id)
          IN  /\ Commit(user.db)
              /\ shown_keyboard' = Refreshed(Database, telegram_id)
              /\ db_call' = DbCall("show_missions", <<telegram_id>>, user.value)
    /\ UNCHANGED <<pc, today, analyzer_vars>>

\* The account presses a start button of the keyboard it was shown.
StartTimerCallback ==
    /\ \E telegram_id \in UserIds :
          \E data \in Buttons(telegram_id, "start") :
              LET call == handle_start_timer(Database, telegram_id, data)
              IN  /\ call.db.sqlite_sequence["timers"] <= MaxTimerId
                  /\ Commit(call.db)
                  /\ shown_keyboard' = Refreshed(call.db, telegram_id)
                  /\ db_call' = DbCall("start_timer", <<telegram_id, data>>,
                                       call.value)
    /\ UNCHANGED <<pc, today, analyzer_vars>>

\* The account presses a stop button of the keyboard it was shown.
StopTimerCallback ==
    /\ \E telegram_id \in UserIds :
          \E data \in Buttons(telegram_id, "stop") :
              LET call == handle_stop_timer(Database, telegram_id, data)
              IN  /\ Commit(call.db)
                  /\ shown_keyboard' = Refreshed(call.db, telegram_id)
                  /\ db_call' = DbCall("stop_timer", <<telegram_id, data>>,
                                       call.value)
    /\ UNCHANGED <<pc, today, analyzer_vars>>

NextBot ==
    \/ InitializeDailyMissions
    \/ CmdStart
    \/ ShowMissions
    \/ StartTimerCallback
    \/ StopTimerCallback

SpecBot == InitBot /\ [][NextBot]_vars

---------------------------------------------------------------------------
(* The values, check-ins and challenges of DatabaseManager.  Of a row the  *)
(* columns a statement of these methods selects on, sets or returns are    *)
(* kept; notes, descriptions and categories are texts passed through.      *)
(***************************************************************************)

\* set_user_value is called until user_values has given out this id,
MaxValueId == 3

\* create_daily_checkin until daily_checkins has given out this id,
MaxCheckinId == 3

\* create_challenge until challenges has given out this id.
MaxChallengeId == 2

\* A streak is incremented up to this length.
MaxStreak == 3

\* The UNIQUE constraints init_db declares on the table, each as the set of
\* its columns.  The PRIMARY KEY id is left out: no INSERT of these methods
\* gives an id.
UniqueConstraints(table) ==
    CASE table = "users" -> { {"telegram_id"} }
      [] table = "daily_checkins" -> { {"user_id", "date", "metric_type"} }
      [] OTHER -> {}

\* The row with the id the table gives it.
WithId(d, table, row) ==
    [ c \in DOMAIN row \cup {"id"} |->
        IF c = "id" THEN NextId(d, table) ELSE row[c] ]

\* INSERT OR REPLACE INTO table: the rows that agree with the new row on
\* every column of some UNIQUE constraint of the table are deleted, then
\* the new row is inserted.
InsertOrReplace(d, table, row) ==
    LET conflicts(r) ==
            \E constraint \in UniqueConstraints(table) :
                \A c \in constraint : r[c] = row[c]
    IN  [ d EXCEPT ![table] = { r \in @ : ~ conflicts(r) }
                                  \cup { WithId(d, table, row) },
                   !.sqlite_sequence = Sequenced(d, table, 1) ]

\* set_user_value: INSERT OR REPLACE INTO user_values.
set_user_value(d, user_id, value_name, importance_level) ==
    Returned(InsertOrReplace(d, "user_values",
                 [ user_id |-> user_id,
                   value_name |-> value_name,
                   importance_level |-> importance_level,
                   updated_at |-> today ]),
             TRUE)

\* The lists of the rows in which importance_level never rises: what a
\* SELECT ... ORDER BY importance_level DESC may return, rows of one level
\* coming in any order.
ByImportance(rows) ==
    { list \in [ 1..Cardinality(rows) -> rows ] :
        /\ \A i, j \in DOMAIN list : i # j => list[i] # list[j]
        /\ \A i \in 1..(Len(list) - 1) :
              list[i].importance_level >= list[i + 1].importance_level }

\* get_user_values: the set of the lists of dicts the call may return.
get_user_values(d, user_id) ==
    { [ i \in DOMAIN list |->
          [ value_name |-> list[i].value_name,
            importance_level |-> list[i].importance_level ] ] :
      list \in ByImportance({ r \in d.user_values : r.user_id = user_id }) }

\* create_daily_checkin with a plain INSERT: nothing is replaced.
CreateDailyCheckinAppending(d, user_id, metric_type, value) ==
    Returned([ d EXCEPT !.daily_checkins =
                   @ \cup { WithId(d, "daily_checkins",
                                   [ user_id |-> user_id,
                                     date |-> today,
                                     metric_type |-> metric_type,
                                     value |-> value ]) },
                        !.sqlite_sequence =
                            Sequenced(d, "daily_checkins", 1) ],
             TRUE)

\* create_daily_checkin: INSERT OR REPLACE INTO daily_checkins, with
\* CURRENT_DATE as the date.
create_daily_checkin(d, user_id, metric_type, value) ==
    Returned(InsertOrReplace(d, "daily_checkins",
                 [ user_id |-> user_id,
                   date |-> today,
                   metric_type |-> metric_type,
                   value |-> value ]),
             TRUE)

\* create_challenge: INSERT INTO challenges; the streaks take their
\* DEFAULT 0 and is_active its DEFAULT 1.
create_challenge(d, user_id, challenge_name) ==
    Returned([ d EXCEPT !.challenges =
                   @ \cup { [ id |-> NextId(d, "challenges"),
                              user_id |-> user_id,
                              challenge_name |-> challenge_name,
                              current_streak |-> 0,
                              best_streak |-> 0,
                              is_active |-> TRUE,
                              start_date |-> today ] },
                        !.sqlite_sequence = Sequenced(d, "challenges", 1) ],
             TRUE)

\* update_challenge_streak forgetting the best streak: best_streak is set
\* to the new current streak.
UpdateStreakForgettingBest(d, challenge_id, increment) ==
    LET updated(c) ==
            IF increment
            THEN [ c EXCEPT !.current_streak = c.current_streak + 1,
                            !.best_streak = c.current_streak + 1 ]
            ELSE [ c EXCEPT !.current_streak = 0 ]
    IN  Returned([ d EXCEPT !.challenges =
                       { IF c.id = challenge_id THEN updated(c) ELSE c :
                         c \in @ } ],
                 \E c \in d.challenges : c.id = challenge_id)

\* update_challenge_streak: UPDATE challenges ... WHERE id = ?.  The right
\* sides of SET read the row as it is before the UPDATE.  The call returns
\* cursor.rowcount > 0: whether a row has the id.
update_challenge_streak(d, challenge_id, increment) ==
    LET greater(a, b) == IF a > b THEN a ELSE b
        updated(c) ==
            IF increment
            THEN [ c EXCEPT !.current_streak = c.current_streak + 1,
                            !.best_streak =
                                greater(c.best_streak, c.current_streak + 1) ]
            ELSE [ c EXCEPT !.current_streak = 0 ]
    IN  Returned([ d EXCEPT !.challenges =
                       { IF c.id = challenge_id THEN updated(c) ELSE c :
                         c \in @ } ],
                 \E c \in d.challenges : c.id = challenge_id)

---------------------------------------------------------------------------
(* Calls of set_user_value (SpecUserValues), of create_daily_checkin over  *)
(* the days (SpecCheckins), and of create_challenge and                    *)
(* update_challenge_streak (SpecChallenges).                               *)

\* /add_value of lifeos_ai.py hands over a name and a level from 1 to 10.
SetUserValue ==
    /\ \E user_id \in UserIds, value_name \in ValueNames,
          importance_level \in ImportanceLevels :
          LET call == set_user_value(Database, user_id, value_name,
                                     importance_level)
          IN  /\ call.db.sqlite_sequence["user_values"] <= MaxValueId
              /\ Commit(call.db)
              /\ db_call' = DbCall("set_user_value",
                                   <<user_id, value_name, importance_level>>,
                                   call.value)
    /\ UNCHANGED <<pc, today, shown_keyboard, analyzer_vars>>

NextUserValues == SetUserValue

SpecUserValues == InitTimers /\ [][NextUserValues]_vars

\* Two of the metrics lifeos_ai.py checks in
MetricTypes == { "sleep_quality", "stress_level" }

\* and two ratings.
CheckinValues == { 3, 7 }

CreateDailyCheckin ==
    /\ \E user_id \in UserIds, metric_type \in MetricTypes,
          value \in CheckinValues :
          LET call == create_daily_checkin(Database, user_id, metric_type, value)
          IN  /\ call.db.sqlite_sequence["daily_checkins"] <= MaxCheckinId
              /\ Commit(call.db)
              /\ db_call' = DbCall("create_daily_checkin",
                                   <<user_id, metric_type, value>>, call.value)
    /\ UNCHANGED <<pc, today, shown_keyboard, analyzer_vars>>

NextCheckins == NextDay \/ CreateDailyCheckin

SpecCheckins == InitTimers /\ [][NextCheckins]_vars

CreateChallenge ==
    /\ \E user_id \in UserIds :
          LET call == create_challenge(Database, user_id, "challenge")
          IN  /\ call.db.sqlite_sequence["challenges"] <= MaxChallengeId
              /\ Commit(call.db)
              /\ db_call' = DbCall("create_challenge", <<user_id>>, call.value)
    /\ UNCHANGED <<pc, today, shown_keyboard, analyzer_vars>>

\* The streak of a challenge is incremented or reset; the id may be the id
\* of no challenge.
UpdateChallengeStreak ==
    /\ \E challenge_id \in 1..MaxChallengeId, increment \in BOOLEAN :
          LET call == update_challenge_streak(Database, challenge_id, increment)
          IN  /\ \A c \in call.db.challenges : c.current_streak <= MaxStreak
              /\ Commit(call.db)
              /\ db_call' = DbCall("update_challenge_streak",
                                   <<challenge_id, increment>>, call.value)
    /\ UNCHANGED <<pc, today, shown_keyboard, analyzer_vars>>

NextChallenges == CreateChallenge \/ UpdateChallengeStreak

SpecChallenges == InitTimers /\ [][NextChallenges]_vars

---------------------------------------------------------------------------
(* Properties of analyze_balance, checked under SpecBalance. *)

\* Whether the snapshot carries a value for metric m.
HasMetric(m) ==
    m \in DOMAIN user_metrics /\ MetricField[m] \in DOMAIN user_metrics[m]

\* The value the snapshot carries for metric m; d when it carries none.
Reading(m, d) == IF HasMetric(m) THEN user_metrics[m][MetricField[m]] ELSE d

Member(list, x) == \E i \in 1..Len(list) : list[i] = x

AdviceFor(issue) ==
    CASE issue = InsufficientSleep -> SleepMoreAdvice
      [] issue = ExcessSleep       -> SleepLessAdvice
      [] issue = Overwork          -> WorkAdvice
      [] issue = FamilyDeficit     -> FamilyAdvice
      [] issue = ExerciseDeficit   -> ExerciseAdvice
      [] issue = LearningDeficit   -> LearningAdvice

\* C1: a snapshot that carries sleep in [6,9], work <= 9, family >= 5,
\* exercise >= 2 and learning >= 15 (energy being anything, or absent) yields
\* an empty critical_imbalances list and an empty micro_habits list.
C1_BalancedSnapshotHasNoIssues ==
    ( /\ pc = "done"
      /\ \A m \in {"sleep", "work", "family", "exercise", "learning"} : HasMetric(m)
      /\ Reading("sleep", 0) >= 6 /\ Reading("sleep", 0) <= 9
      /\ Reading("work", 0) <= 9
      /\ Reading("family", 0) >= 5
      /\ Reading("exercise", 0) >= 2
      /\ Reading("learning", 0) >= 15 )
    => /\ balance.critical_imbalances = << >>
       /\ balance.micro_habits = << >>

\* A balanced snapshot on its limits, without energy, has been analyzed.
C1_Witness ==
    /\ pc = "done"
    /\ ~HasMetric("energy")
    /\ HasMetric("sleep") /\ Reading("sleep", 0) = 9
    /\ HasMetric("work") /\ Reading("work", 0) = 9
    /\ HasMetric("family") /\ Reading("family", 0) = 5
    /\ HasMetric("exercise") /\ Reading("exercise", 0) = 2
    /\ HasMetric("learning") /\ Reading("learning", 0) = 15
    /\ balance.critical_imbalances = << >>

\* C2: critical_imbalances holds exactly the issues whose threshold is
\* crossed (an absent metric counting as 0), each once: insufficient sleep iff
\* sleep < 6, excess sleep iff sleep > 9, never both, overwork iff work > 9,
\* family deficit iff family < 5, exercise deficit iff exercise < 2, learning
\* deficit iff learning < 15; and recommendations holds one entry per issue,
\* the issue's advice, in the same order.
C2_IssuesAreExactlyTheCrossedThresholds ==
    pc = "done" =>
        LET iss  == balance.critical_imbalances
            recs == balance.recommendations
        IN  /\ Member(iss, InsufficientSleep) <=> Reading("sleep", 0) < 6
            /\ Member(iss, ExcessSleep) <=> Reading("sleep", 0) > 9
            /\ ~(Member(iss, InsufficientSleep) /\ Member(iss, ExcessSleep))
            /\ Member(iss, Overwork) <=> Reading("work", 0) > 9
            /\ Member(iss, FamilyDeficit) <=> Reading("family", 0) < 5
            /\ Member(iss, ExerciseDeficit) <=> Reading("exercise", 0) < 2
            /\ Member(iss, LearningDeficit) <=> Reading("learning", 0) < 15
            /\ \A i \in 1..Len(iss) :
                  iss[i] \in { InsufficientSleep, ExcessSleep, Overwork,
                               FamilyDeficit, ExerciseDeficit, LearningDeficit }
            /\ \A i, j \in 1..Len(iss) : iss[i] = iss[j] => i = j
            /\ Len(recs) = Len(iss)
            /\ \A i \in 1..Len(iss) : recs[i] = AdviceFor(iss[i])

\* Every threshold is crossed at once (sleep on the excess side).
C2_Witness ==
    /\ pc = "done"
    /\ Reading("sleep", 0) > 9 /\ Reading("work", 0) > 9
    /\ balance.critical_imbalances =
          << ExcessSleep, Overwork, FamilyDeficit, ExerciseDeficit, LearningDeficit >>
    /\ Len(balance.recommendations) = 5

\* C3: with sleep < 6 and work > 9 the issues hold both the insufficient-sleep
\* and the overwork marker and the correlations hold the sleep-deficit ->
\* productivity-loss string; that string is present iff sleep < 6 and work > 8.
C3_SleepDeficitAndOverwork ==
    pc = "done" =>
        /\ (Reading("sleep", 0) < 6 /\ Reading("work", 0) > 9)
              => /\ Member(balance.critical_imbalances, InsufficientSleep)
                 /\ Member(balance.critical_imbalances, Overwork)
                 /\ Member(balance.correlations, SleepProductivity)
        /\ Member(balance.correlations, SleepProductivity)
              <=> (Reading("sleep", 0) < 6 /\ Reading("work", 0) > 8)

\* Sleep 5 and work 10 have been analyzed.
C3_Witness ==
    /\ pc = "done"
    /\ HasMetric("sleep") /\ Reading("sleep", 0) = 5
    /\ HasMetric("work") /\ Reading("work", 0) = 10
    /\ Member(balance.correlations, SleepProductivity)

\* C4 as stated: without an energy metric the exercise-deficit -> low-energy
\* correlation is never emitted, and it is emitted only when exercise < 2 and
\* an energy level below 6 is supplied.
C4_NoEnergyNoCorrelation ==
    pc = "done" =>
        /\ ~HasMetric("energy") => ~Member(balance.correlations, ExerciseEnergy)
        /\ Member(balance.correlations, ExerciseEnergy)
              => /\ Reading("exercise", 0) < 2
                 /\ HasMetric("energy") /\ Reading("energy", 5) < 6

\* C4, amended: the exercise-deficit -> low-energy correlation is emitted iff
\* exercise < 2 and the energy level, read as 5 when absent, is below 6; so
\* without an energy metric it is emitted exactly when exercise < 2, and only
\* a supplied energy level of 6 or more suppresses it.
C4_EnergyDefaultsBelowLimit ==
    pc = "done" =>
        /\ Member(balance.correlations, ExerciseEnergy)
              <=> (Reading("exercise", 0) < 2 /\ Reading("energy", 5) < 6)
        /\ ~HasMetric("energy")
              => (Member(balance.correlations, ExerciseEnergy)
                     <=> Reading("exercise", 0) < 2)
        /\ (HasMetric("energy") /\ Reading("energy", 5) >= 6)
              => ~Member(balance.correlations, ExerciseEnergy)

\* A snapshot without energy and with exercise 1 got the correlation.
C4_Witness ==
    /\ pc = "done"
    /\ "energy" \notin DOMAIN user_metrics
    /\ HasMetric("exercise") /\ Reading("exercise", 0) = 1
    /\ Member(balance.correlations, ExerciseEnergy)

\* C5: micro_habits has at most one element: the sleep habit if sleep < 6,
\* else the family habit if family < 5, else the exercise habit if
\* exercise < 2, else the learning habit if learning < 15, else none; work > 9
\* and sleep > 9 alone give no micro-habit.
C5_OneMicroHabitByPriority ==
    pc = "done" =>
        /\ Len(balance.micro_habits) <= 1
        /\ balance.micro_habits =
              ( IF Reading("sleep", 0) < 6 THEN <<SleepHabit>>
                ELSE IF Reading("family", 0) < 5 THEN <<FamilyHabit>>
                ELSE IF Reading("exercise", 0) < 2 THEN <<ExerciseHabit>>
                ELSE IF Reading("learning", 0) < 15 THEN <<LearningHabit>>
                ELSE << >> )
        /\ ( /\ Reading("sleep", 0) >= 6 /\ Reading("family", 0) >= 5
             /\ Reading("exercise", 0) >= 2 /\ Reading("learning", 0) >= 15 )
              => balance.micro_habits = << >>

\* Family and exercise are both deficient, with excess sleep and overwork:
\* the family habit alone is suggested.
C5_Witness ==
    /\ pc = "done"
    /\ Reading("sleep", 0) > 9 /\ Reading("work", 0) > 9
    /\ HasMetric("family") /\ Reading("family", 0) < 5
    /\ HasMetric("exercise") /\ Reading("exercise", 0) < 2
    /\ balance.micro_habits = <<FamilyHabit>>

\* C6: an absent metric is read as 0: absent sleep is insufficient sleep and
\* never excess sleep, absent work is no overwork, absent family, exercise
\* and learning are deficits; the empty snapshot yields exactly the four
\* issues insufficient sleep, family, exercise and learning deficit, and the
\* sleep micro-habit.
C6_AbsentMetricsReadAsZero ==
    pc = "done" =>
        LET iss == balance.critical_imbalances
        IN  /\ ~HasMetric("sleep")
                  => Member(iss, InsufficientSleep) /\ ~Member(iss, ExcessSleep)
            /\ ~HasMetric("work") => ~Member(iss, Overwork)
            /\ ~HasMetric("family") => Member(iss, FamilyDeficit)
            /\ ~HasMetric("exercise") => Member(iss, ExerciseDeficit)
            /\ ~HasMetric("learning") => Member(iss, LearningDeficit)
            /\ DOMAIN user_metrics = {}
                  => /\ iss = << InsufficientSleep, FamilyDeficit,
                                 ExerciseDeficit, LearningDeficit >>
                     /\ balance.micro_habits = <<SleepHabit>>

\* The empty snapshot has been analyzed.
C6_Witness ==
    /\ pc = "done"
    /\ DOMAIN user_metrics = {}
    /\ Len(balance.critical_imbalances) = 4

---------------------------------------------------------------------------
(* Properties of analyze_activity, checked under SpecActivity. *)

\* The categories in the order of their priority.
Priority == << "high_value", "medium_value", "low_value", "negative_value" >>

\* The keyword list activity_categories holds for category cat.
KeywordsOf(cat) ==
    activity_categories[CHOOSE c \in 1..Len(activity_categories) :
                            activity_categories[c].cat = cat].keywords

\* Whether a keyword of category cat is part of the lower-cased text.
HasKeywordOf(cat) == ContainsAny(Lower(journal_text), KeywordsOf(cat))

\* C7: the category is one of high_value, medium_value, low_value,
\* negative_value, unknown; it is unknown iff no keyword of any of the four
\* lists is part of the lower-cased text; and a repeated call on the same text
\* returns the same category, whatever the random draws.
C7_CategoryIsAFunctionOfTheText ==
    /\ [](pc = "done" =>
            /\ analysis.category \in { "high_value", "medium_value", "low_value",
                                       "negative_value", "unknown" }
            /\ analysis.category = "unknown"
                  <=> ~(\E c \in 1..Len(Priority) : HasKeywordOf(Priority[c])))
    /\ [][(pc = "done" /\ pc' = "done" /\ journal_text' = journal_text)
             => analysis'.category = analysis.category]_vars

\* A text with a capital letter, whose lower-cased form alone holds a
\* keyword, has been analyzed.
C7_Witness ==
    /\ pc = "done"
    /\ journal_text # Lower(journal_text)
    /\ HasKeywordOf("low_value")
    /\ analysis.category = "low_value"

\* C8: the category returned is the first one, in the order high_value,
\* medium_value, low_value, negative_value, that has a keyword contained in
\* the lower-cased text: a category is returned iff it has such a keyword and
\* no category before it has one.
C8_FirstCategoryInPriorityOrderWins ==
    pc = "done" =>
        \A c \in 1..Len(Priority) :
            analysis.category = Priority[c]
                <=> /\ HasKeywordOf(Priority[c])
                    /\ \A h \in 1..(c - 1) : ~HasKeywordOf(Priority[h])

\* A text with a medium_value and a negative_value keyword and no high_value
\* keyword has been analyzed.
C8_Witness ==
    /\ pc = "done"
    /\ ~HasKeywordOf("high_value")
    /\ HasKeywordOf("medium_value") /\ HasKeywordOf("negative_value")
    /\ analysis.category = "medium_value"

FamilyDinner    == <<"s","e","m","e","j","n","y","j"," ","u","zh","i","n">>          \* семейный ужин
ScrollingFeed   == <<"s","k","r","o","l","l","i","n","g"," ","l","e","n","t","y">>  \* скроллинг ленты

\* C9 as stated: a text containing "семейный ужин" gets high_value and a text
\* containing "скроллинг ленты" gets low_value, whatever else it contains.
C9_KeywordDecidesCategory ==
    pc = "done" =>
        /\ Contains(journal_text, FamilyDinner) => analysis.category = "high_value"
        /\ Contains(journal_text, ScrollingFeed) => analysis.category = "low_value"

\* C9, amended: a text containing "семейный ужин" gets high_value whatever
\* else it contains; a text containing "скроллинг ленты" gets low_value
\* provided its lower-cased form contains no high_value and no medium_value
\* keyword, and the category of that keyword otherwise.
C9_ScrollingIsLowUnlessOutranked ==
    pc = "done" =>
        /\ Contains(journal_text, FamilyDinner) => analysis.category = "high_value"
        /\ Contains(journal_text, ScrollingFeed)
              => analysis.category =
                    ( IF HasKeywordOf("high_value") THEN "high_value"
                      ELSE IF HasKeywordOf("medium_value") THEN "medium_value"
                      ELSE "low_value" )

\* A text with "скроллинг ленты" and a negative_value keyword got low_value.
C9_Witness ==
    /\ pc = "done"
    /\ Contains(journal_text, ScrollingFeed)
    /\ HasKeywordOf("negative_value")
    /\ analysis.category = "low_value"

\* C10: value_score is an integer within the range of the returned category:
\* [7,10] for high_value, [4,7] for medium_value, [1,4] for low_value, [0,2]
\* for negative_value, exactly 5 for unknown; hence within [0,10].
C10_ScoreWithinCategoryRange ==
    pc = "done" =>
        /\ analysis.value_score \in Int
        /\ analysis.category = "high_value"
              => analysis.value_score >= 7 /\ analysis.value_score <= 10
        /\ analysis.category = "medium_value"
              => analysis.value_score >= 4 /\ analysis.value_score <= 7
        /\ analysis.category = "low_value"
              => analysis.value_score >= 1 /\ analysis.value_score <= 4
        /\ analysis.category = "negative_value"
              => analysis.value_score >= 0 /\ analysis.value_score <= 2
        /\ analysis.category = "unknown" => analysis.value_score = 5
        /\ analysis.value_score >= 0 /\ analysis.value_score <= 10

\* A negative_value text was scored 0, the lowest score there is.
C10_Witness ==
    /\ pc = "done"
    /\ analysis.category = "negative_value"
    /\ analysis.value_score = 0

---------------------------------------------------------------------------
(* Properties of analyze_goal_progress, checked under SpecGoal. *)

\* The call of analyze_goal_progress is over: it returned or it raised.
GoalCallOver == pc \in {"done", "raised"}

\* The number of whole days from tick from to tick to.
WholeDays(from, to) == (to - from) \div TicksPerDay

\* end - start in whole days, a missing start being the clock and a missing
\* end being 30 days after the clock.
DurationOfGoal ==
    WholeDays(IF "start_date" \in DOMAIN goal THEN goal["start_date"] ELSE now,
              IF "end_date" \in DOMAIN goal THEN goal["end_date"]
              ELSE now + 30 * TicksPerDay)

\* max(1, whole days since the start)
DaysOnGoal ==
    LET elapsed == WholeDays(IF "start_date" \in DOMAIN goal
                             THEN goal["start_date"] ELSE now, now)
    IN  IF elapsed < 1 THEN 1 ELSE elapsed

\* The fraction r equals n / d (d > 0).
IsQuotient(r, n, d) == r.num * d = n * r.den

\* C11: for every goal the call returns a report whose progress_percentage
\* is current_value / target_value * 100 when target_value > 0 and 0 when
\* target_value <= 0.
C11_ProgressIsShareOfTarget ==
    GoalCallOver =>
        /\ pc = "done"
        /\ IF GoalTargetValue(goal) > 0
           THEN IsQuotient(goal_report.progress_percentage,
                           100 * GoalCurrentValue(goal), GoalTargetValue(goal))
           ELSE IsQuotient(goal_report.progress_percentage, 0, 1)

\* Whether the pace so far is below 0.7 of the pace the goal requires:
\* current / days < 0.7 * target / duration, for duration > 0.
BehindPace ==
    /\ DurationOfGoal > 0
    /\ 10 * GoalCurrentValue(goal) * DurationOfGoal
         < 7 * GoalTargetValue(goal) * DaysOnGoal

\* C12: for every goal and every current time the call returns a report
\* whose timeline_realistic is false exactly when the goal has a positive
\* duration and is behind pace, and true otherwise, a duration of zero or
\* less included.
C12_UnrealisticExactlyWhenBehindPace ==
    GoalCallOver =>
        /\ pc = "done"
        /\ goal_report.timeline_realistic = ~ BehindPace

\* C13: for every goal whose current value equals its target value, with
\* any start date, end date and current time, the call returns progress 100
\* and a realistic timeline.
C13_ReachedGoalIsCompleteAndRealistic ==
    (GoalCallOver /\ GoalCurrentValue(goal) = GoalTargetValue(goal)) =>
        /\ pc = "done"
        /\ IsQuotient(goal_report.progress_percentage, 100, 1)
        /\ goal_report.timeline_realistic

\* C14: the call never fails with a division by zero: for every goal, a
\* target of 0 and an end date on the day of the start date included, it
\* returns a report whose weekly_micro_plan has exactly 7 entries.
C14_NeverDividesByZero ==
    GoalCallOver =>
        /\ exception # ZeroDivisionError
        /\ pc = "done"
        /\ Len(goal_report.weekly_micro_plan) = 7

\* C15: the adjustments of a returned report are empty iff the timeline is
\* realistic; an unrealistic timeline has exactly one suggestion, and the
\* target it proposes is the midpoint current + (target - current) / 2.
C15_OneMidpointSuggestionIffUnrealistic ==
    pc = "done" /\ goal # EmptyDict =>
        /\ (goal_report.adjustments = << >>) <=> goal_report.timeline_realistic
        /\ ~ goal_report.timeline_realistic =>
              /\ Len(goal_report.adjustments) = 1
              /\ Len(goal_report.adjustments[1]) = 2
              /\ IsQuotient(goal_report.adjustments[1][2],
                            GoalCurrentValue(goal) + GoalTargetValue(goal), 2)

\* A goal behind pace got its one suggestion, half way to a target it has
\* not reached.
C15_Witness ==
    /\ pc = "done"
    /\ goal # EmptyDict
    /\ ~ goal_report.timeline_realistic
    /\ Len(goal_report.adjustments) = 1
    /\ GoalCurrentValue(goal) + 1 < GoalTargetValue(goal)
    /\ goal_report.adjustments[1][2] = [num |-> 1, den |-> 1]

\* A goal on pace got no suggestion.
C15_WitnessRealistic ==
    /\ pc = "done"
    /\ goal # EmptyDict
    /\ DurationOfGoal > 0
    /\ goal_report.timeline_realistic
    /\ goal_report.adjustments = << >>

---------------------------------------------------------------------------
(* Properties of analyze_values_alignment, checked under SpecValues. *)

\* The lower-cased text of the k-th logged action.
ActionText(k) == Lower(logged_actions[k]["activity"])

\* The logged actions (by position) whose lower-cased text contains the
\* lower-cased name.
ActionsNaming(name) ==
    { k \in 1..Len(logged_actions) : Contains(ActionText(k), Lower(name)) }

ActionsMatching(name) ==
    { k \in 1..Len(logged_actions) :
        \/ Contains(ActionText(k), Lower(name))
        \/ Contains(ActionText(k), Replace(Lower(name), " "))
        \/ Contains(ActionText(k), Replace(Lower(name), "-")) }

\* The i-th record of the report is among the misalignments.
IsMisaligned(i) ==
    \E j \in 1..Len(alignment.misalignments) :
        alignment.misalignments[j] = alignment.alignment_report[i]

\* C17: misalignments is the sub-list of the report records whose
\* alignment_score is below half their importance, in report order; so a
\* value of importance 1 or more with no matching action is misaligned and
\* a value with 5 or more matching actions is not.
C17_MisalignedBelowHalfImportance ==
    pc = "done" =>
        /\ alignment.misalignments =
              SelectSeq(alignment.alignment_report,
                        LAMBDA item : 2 * item.alignment_score < item.importance)
        /\ \A i \in 1..Len(declared_values) :
              LET matching == Cardinality(ActionsMatching(declared_values[i]["value_name"]))
              IN  /\ (declared_values[i]["importance_level"] >= 1 /\ matching = 0)
                        => IsMisaligned(i)
                  /\ matching >= 5 => ~ IsMisaligned(i)

\* Five actions match the second value and none the first: of the two
\* records only the first is misaligned.
C17_Witness ==
    /\ pc = "done"
    /\ Len(declared_values) = 2
    /\ Cardinality(ActionsMatching(declared_values[1]["value_name"])) = 0
    /\ Cardinality(ActionsMatching(declared_values[2]["value_name"])) >= 5
    /\ alignment.misalignments = << alignment.alignment_report[1] >>
    /\ alignment.alignment_report[2].alignment_score = 10

---------------------------------------------------------------------------
(* Properties of the scientific recommendation, checked under             *)
(* SpecRecommendation.                                                    *)

\* The lower-cased text of the analysed activity.
AnalysedText == Lower(analysis.activity)

\* The positions in the alternative-suggestion table of the keys the text
\* contains.
KeysInText ==
    { a \in 1..Len(alternatives) : Contains(AnalysedText, alternatives[a].key) }

\* The alternative suggestions of the table.
AlternativeSuggestions == { alternatives[a].alt : a \in 1..Len(alternatives) }

\* C18: with category low_value or negative_value and a key of the
\* alternative-suggestion table in the lower-cased text, the recommendation
\* is the suggestion of the first such key in table order, whatever topic
\* the text names; with category high_value, medium_value or unknown the
\* recommendation is never an alternative suggestion.
C18_AlternativeOnlyForLowOrNegative ==
    pc = "done" =>
        /\ (analysis.category \in {"low_value", "negative_value"} /\ KeysInText # {})
              => analysis.scientific_recommendation
                   = alternatives[CHOOSE a \in KeysInText :
                                    \A b \in KeysInText : a <= b].alt
        /\ analysis.category \in {"high_value", "medium_value", "unknown"}
              => analysis.scientific_recommendation \notin AlternativeSuggestions

\* The order in which the buckets are tried.
BucketOrder ==
    << "family_time", "deep_work", "sleep", "exercise", "hydration",
       "morning_routine" >>

\* The text contains a word of the bucket's word list.
HasTopicWord(bucket) ==
    \E t \in 1..Len(topic_words) :
        /\ topic_words[t].bucket = bucket
        /\ ContainsAny(AnalysedText, topic_words[t].words)

\* The first bucket in BucketOrder with a word in the text, None without one.
FirstBucket ==
    LET found == { i \in 1..Len(BucketOrder) : HasTopicWord(BucketOrder[i]) }
    IN  IF found = {} THEN None
        ELSE BucketOrder[CHOOSE i \in found : \A j \in found : i <= j]

\* A low_value text that holds the keys of two alternatives, the later one
\* of the table first, and names a topic got the suggestion of the earlier
\* key.
C18_Witness ==
    /\ pc = "done"
    /\ analysis.category = "low_value"
    /\ KeysInText = {2, 4}
    /\ analysis.activity[1] = "N"
    /\ analysis.scientific_recommendation = alternatives[2].alt

\* A low_value text with a key and a topic word got the alternative, and
\* not a fact of the topic.
C18_WitnessTopic ==
    /\ pc = "done"
    /\ analysis.category = "low_value"
    /\ KeysInText = {4}
    /\ FirstBucket = "sleep"
    /\ analysis.scientific_recommendation = alternatives[4].alt

\* The alternative branch applies: the category is low or negative and the
\* text holds a key of the table.
AlternativeApplies ==
    /\ analysis.category \in {"low_value", "negative_value"}
    /\ KeysInText # {}

\* C19: the topic bucket of a text is the first, in the order family_time,
\* deep_work, sleep, exercise, hydration, morning_routine, with a word in
\* the lower-cased text; unless an alternative is returned, the
\* recommendation is one of that bucket's facts, and it is the generic
\* fallback iff no bucket has a word in the text.
C19_FactOfFirstBucketElseGeneric ==
    pc = "done" =>
        /\ map_activity_to_category_key(analysis.activity, analysis.category)
              = FirstBucket
        /\ ~ AlternativeApplies =>
              /\ FirstBucket # None =>
                    \E f \in 1..Len(scientific_facts[FirstBucket]) :
                        analysis.scientific_recommendation
                          = scientific_facts[FirstBucket][f]
              /\ (analysis.scientific_recommendation = GenericRecommendation)
                    <=> FirstBucket = None

\* A text naming sleep before work got a fact about deep work.
C19_Witness ==
    /\ pc = "done"
    /\ ~ AlternativeApplies
    /\ Len(analysis.activity) > 0
    /\ analysis.activity[1] = "s"
    /\ HasTopicWord("sleep")
    /\ FirstBucket = "deep_work"
    /\ analysis.scientific_recommendation = scientific_facts["deep_work"][3]

\* A text naming no topic got the generic recommendation.
C19_WitnessGeneric ==
    /\ pc = "done"
    /\ ~ AlternativeApplies
    /\ Len(analysis.activity) > 0
    /\ FirstBucket = None
    /\ analysis.scientific_recommendation = GenericRecommendation

---------------------------------------------------------------------------
(* Properties of the analyzers called one after another, checked under    *)
(* SpecCalls.                                                             *)

\* C20: every analyzer is a function of its arguments and its random draws:
\* two calls of the same analyzer with identical arguments and identical
\* draws return the same output, whatever calls were made before and
\* between them and whenever they are made.  (No action changes an argument
\* or a table: the arguments of a recorded call are those of every call.)
C20_SameArgumentsAndDrawsSameOutput ==
    ( /\ remembered # NoCall
      /\ last_call # NoCall
      /\ remembered.analyzer = last_call.analyzer
      /\ remembered.input = last_call.input
      /\ remembered.draws = last_call.draws )
        => remembered.outcome = last_call.outcome

---------------------------------------------------------------------------
(* Properties of the timers, checked under SpecTimers. *)

\* Whether the recorded call is a call of the method.
Called(call, method) == "method" \in DOMAIN call /\ call.method = method

\* Whether the step is a call of the method: the call it records is one,
\* and it is not the step of midnight, which records no call.
CallStep(method) == Called(db_call', method) /\ today' = today

\* The active timers the user has for the mission.
ActiveTimers(user_id, mission_id) ==
    { t \in timers : /\ t.user_id = user_id
                     /\ t.mission_id = mission_id
                     /\ t.is_active }

\* A step that is a call start_timer(user, mission): with an active timer
\* of the user for the mission it returns False and leaves the table as it
\* is, otherwise it returns True and the table gains exactly one row, an
\* active and not completed timer of the user for the mission.
StartTimerStep ==
    CallStep("start_timer") =>
        LET user_id == db_call'.args[1]
            mission_id == db_call'.args[2]
        IN  IF ActiveTimers(user_id, mission_id) # {}
            THEN db_call'.value = FALSE /\ timers' = timers
            ELSE /\ db_call'.value = TRUE
                 /\ \E t \in timers' \ timers :
                       /\ timers' = timers \cup {t}
                       /\ t.user_id = user_id
                       /\ t.mission_id = mission_id
                       /\ t.is_active
                       /\ ~ t.completed

OneActiveTimerPerMission ==
    \A user_id \in UserIds, mission_id \in 1..MaxMissionId :
        Cardinality(ActiveTimers(user_id, mission_id)) <= 1

\* C21: start_timer(user, mission) returns False and inserts nothing when
\* the user already has an active timer for the mission, and otherwise
\* inserts one new active, not completed timer and returns True; in every
\* state reached by start_timer and complete_timer calls a user has at
\* most one active timer for a mission.
C21_StartTimerInsertsUnlessActive ==
    [] OneActiveTimerPerMission /\ [][StartTimerStep]_vars

\* start_timer has just refused a second timer for a mission: the user has
\* one active timer for it, and an earlier, completed timer for it as well.
C21_Witness ==
    /\ Called(db_call, "start_timer")
    /\ db_call.value = FALSE
    /\ Cardinality(ActiveTimers(db_call.args[1], db_call.args[2])) = 1
    /\ \E t \in timers : /\ t.user_id = db_call.args[1]
                         /\ t.mission_id = db_call.args[2]
                         /\ t.completed


\* A step that is a call complete_timer(timer_id): on an active timer it
\* returns True and that timer, and no other row, becomes inactive and
\* completed; on a completed timer or an id of no timer it returns False
\* and every table stays as it is.
CompleteTimerStep ==
    CallStep("complete_timer") =>
        LET timer_id == db_call'.args[1]
            found == { t \in timers : t.id = timer_id /\ t.is_active }
        IN  IF found # {}
            THEN /\ db_call'.value = TRUE
                 /\ \E t \in found, c \in timers' :
                       /\ timers' = (timers \ {t}) \cup {c}
                       /\ c.id = t.id
                       /\ c.user_id = t.user_id
                       /\ c.mission_id = t.mission_id
                       /\ ~ c.is_active
                       /\ c.completed
            ELSE /\ db_call'.value = FALSE
                 /\ Database' = Database

\* A timer that is completed stays in the table, completed and inactive.
CompletedStaysCompleted ==
    \A t \in timers :
        t.completed => \E c \in timers' :
                          c.id = t.id /\ c.completed /\ ~ c.is_active

NeverActiveAndCompleted == \A t \in timers : ~ (t.is_active /\ t.completed)

\* C22: complete_timer succeeds only on an active timer, which becomes
\* inactive and completed; on a completed or non-existent timer it returns
\* False and changes no row; no timer is ever both active and completed,
\* and a completed timer never becomes active again.
C22_TimerLifecycle ==
    /\ [] NeverActiveAndCompleted
    /\ [][CompleteTimerStep /\ CompletedStaysCompleted]_vars

\* complete_timer has just refused a timer that an earlier call completed,
\* while the user has started a new timer for the same mission.
C22_Witness ==
    /\ Called(db_call, "complete_timer")
    /\ db_call.value = FALSE
    /\ \E t \in timers :
          /\ t.id = db_call.args[1]
          /\ t.completed
          /\ ~ t.is_active
          /\ ActiveTimers(t.user_id, t.mission_id) # {}


\* The active timers of the user.
ActiveTimersOf(user_id) ==
    { t \in timers : t.user_id = user_id /\ t.is_active }

\* Whether the timer refers to a row of daily_missions.
RefersToMission(t) == \E dm \in daily_missions : dm.id = t.mission_id

\* The type of the mission with the id.
MissionType(mission_id) ==
    (CHOOSE dm \in daily_missions : dm.id = mission_id).mission_type

\* C24: a user has at most one active timer at any time, and it is the
\* timer get_active_timer returns.  Stated for the users whose active
\* timers all refer to missions that exist: the user has at most one
\* active timer; with none get_active_timer returns None, with one it
\* returns that timer.
C24_OneActiveTimerPerUser ==
    \A user_id \in UserIds :
        (\A t \in ActiveTimersOf(user_id) : RefersToMission(t)) =>
            /\ Cardinality(ActiveTimersOf(user_id)) <= 1
            /\ \A r \in get_active_timer(Database, user_id) :
                  IF ActiveTimersOf(user_id) = {}
                  THEN r = {}
                  ELSE \E t \in ActiveTimersOf(user_id) :
                          r = { [ id |-> t.id, start_time |-> t.start_time,
                                  mission_id |-> t.mission_id,
                                  mission_type |-> MissionType(t.mission_id) ] }

---------------------------------------------------------------------------
(* Properties of the daily missions, checked under SpecMissions. *)

\* C26: create_daily_missions replaces rather than appends.  A step that
\* is a call create_daily_missions(user, missions) leaves the user with
\* exactly the missions of the call for today, one row for each, leaves
\* the missions of other users and of other days as they are, and every
\* timer that referred to a mission before the call refers to a mission
\* after it.
C26_CreateDailyMissionsReplaces ==
    [][ CallStep("create_daily_missions") =>
          LET user_id == db_call'.args[1]
              missions == db_call'.args[2]
              todays == { dm \in daily_missions' :
                            dm.user_id = user_id /\ dm.created_at = today }
              others(rows) == { dm \in rows :
                                  ~ (dm.user_id = user_id
                                     /\ dm.created_at = today) }
          IN  /\ Cardinality(todays) = Len(missions)
              /\ { [ type |-> dm.mission_type,
                      target_duration |-> dm.target_duration ] :
                    dm \in todays } =
                     { missions[i] : i \in 1..Len(missions) }
              /\ others(daily_missions') = others(daily_missions)
              /\ \A t \in timers :
                    RefersToMission(t) => t \in timers' /\ RefersToMission(t)'
      ]_vars


---------------------------------------------------------------------------
(* Properties of the bot, checked under SpecBot. *)

\* The id the account has in table users.
UserIdOf(telegram_id) ==
    (CHOOSE u \in users : u.telegram_id = telegram_id).id

\* C23: stopping an active mission stops that mission's timer.  A step
\* that handles the stop button shown for mission m to a user who has an
\* active timer for m, started by the start button of m, leaves m without
\* an active timer of the user, and leaves every timer of another mission
\* or of another user as it is.
C23_StopButtonStopsItsMission ==
    [][ CallStep("stop_timer") =>
          LET user_id == UserIdOf(db_call'.args[1])
              mission_id == db_call'.args[2][3]
          IN  ActiveTimers(user_id, mission_id) # {} =>
                  /\ { t \in timers' : /\ t.user_id = user_id
                                       /\ t.mission_id = mission_id
                                       /\ t.is_active } = {}
                  /\ \A t \in timers :
                        ~ (t.user_id = user_id /\ t.mission_id = mission_id)
                            => t \in timers'
      ]_vars

\* The types of the missions the goals are configured for.
ConfiguredTypes ==
    { "sleep", "exercise", "family", "deep_work", "hydration" }

\* C25: after the /start handler has run for a user, get_todays_missions
\* returns one mission per configured personal goal: sleep, exercise,
\* family, deep work and hydration.
C25_StartInitialisesMissions ==
    Called(db_call, "cmd_start") =>
        LET missions == get_todays_missions(Database, db_call.value.id)
        IN  /\ { mission.type : mission \in missions } = ConfiguredTypes
            /\ Cardinality(missions) = Cardinality(ConfiguredTypes)


---------------------------------------------------------------------------
(* Properties of the values, checked under SpecUserValues. *)

\* C27: set_user_value sets or updates a value.  After a call for a user
\* and a value name, every list get_user_values may return for the user
\* holds exactly one entry for the name, with the importance level of the
\* call, and the report analyze_values_alignment makes of the list has one
\* record per distinct value name.
C27_SetUserValueUpdates ==
    Called(db_call, "set_user_value") =>
        LET user_id == db_call.args[1]
            value_name == db_call.args[2]
            importance_level == db_call.args[3]
        IN  \A list \in get_user_values(Database, user_id) :
                LET named == { i \in DOMAIN list :
                                 list[i].value_name = value_name }
                    report == analyze_values_alignment(<< >>, list)
                                  .alignment_report
                IN  /\ Cardinality(named) = 1
                    /\ \A i \in named :
                          list[i].importance_level = importance_level
                    /\ Len(report) =
                           Cardinality({ list[i].value_name : i \in DOMAIN list })

---------------------------------------------------------------------------
(* Properties of the check-ins, checked under SpecCheckins. *)

\* The check-ins under the key (user, date, metric type).
CheckinsOf(user_id, date, metric_type) ==
    { r \in daily_checkins : /\ r.user_id = user_id
                             /\ r.date = date
                             /\ r.metric_type = metric_type }

OneCheckinPerKey ==
    \A r \in daily_checkins :
        CheckinsOf(r.user_id, r.date, r.metric_type) = {r}

\* A step that is a call create_daily_checkin(user, metric, value): the
\* key (user, today, metric) then holds the value of the call, and the
\* check-ins of every other key are as they were.
CreateDailyCheckinStep ==
    CallStep("create_daily_checkin") =>
        LET user_id == db_call'.args[1]
            metric_type == db_call'.args[2]
            value == db_call'.args[3]
            keyed(r) == /\ r.user_id = user_id
                        /\ r.date = today
                        /\ r.metric_type = metric_type
        IN  /\ \E r \in daily_checkins' : keyed(r) /\ r.value = value
            /\ \A r \in daily_checkins' : keyed(r) => r.value = value
            /\ { r \in daily_checkins' : ~ keyed(r) } =
                   { r \in daily_checkins : ~ keyed(r) }

\* C28: after any sequence of create_daily_checkin calls there is at most
\* one check-in per (user, date, metric type), holding the value of the
\* most recent call for that key; a call never changes the check-ins of
\* another user, date or metric type.
C28_OneCheckinPerKey ==
    [] OneCheckinPerKey /\ [][CreateDailyCheckinStep]_vars

\* A call has just replaced the check-in of its key, another key holding a
\* check-in of an earlier day.
C28_Witness ==
    /\ Called(db_call, "create_daily_checkin")
    /\ sqlite_sequence["daily_checkins"] > Cardinality(daily_checkins)
    /\ \E r \in daily_checkins : r.date < today

---------------------------------------------------------------------------
(* Properties of the streaks, checked under SpecChallenges. *)

\* The challenge with the id as it is after the step.
SameChallengeAfter(c, after) == after \in challenges' /\ after.id = c.id

\* Every step leaves every challenge in the table with a best streak that
\* is not smaller.
BestStreakNeverDecreases ==
    \A c \in challenges :
        \E after \in challenges' :
            SameChallengeAfter(c, after) /\ after.best_streak >= c.best_streak

\* A step that is a call update_challenge_streak(id, increment): an
\* increment raises current_streak of the challenge by one, a reset sets
\* it to 0 and leaves best_streak as it is, and every other challenge is
\* as it was.
UpdateChallengeStreakStep ==
    CallStep("update_challenge_streak") =>
        LET challenge_id == db_call'.args[1]
            increment == db_call'.args[2]
        IN  /\ \A c \in challenges :
                  c.id = challenge_id =>
                      \E after \in challenges' :
                          /\ SameChallengeAfter(c, after)
                          /\ IF increment
                             THEN after.current_streak = c.current_streak + 1
                             ELSE /\ after.current_streak = 0
                                  /\ after.best_streak = c.best_streak
            /\ { c \in challenges' : c.id # challenge_id } =
                   { c \in challenges : c.id # challenge_id }

StreaksInOrder ==
    \A c \in challenges :
        c.best_streak >= c.current_streak /\ c.current_streak >= 0

\* C29: after any sequence of increments and resets of a challenge that
\* starts at current_streak = best_streak = 0, best_streak >=
\* current_streak >= 0; best_streak never decreases; an increment raises
\* current_streak by exactly 1; a reset sets current_streak to 0 and
\* leaves best_streak unchanged; a call on one challenge leaves every
\* other challenge unchanged.
C29_StreaksInOrder ==
    /\ [] StreaksInOrder
    /\ [][BestStreakNeverDecreases /\ UpdateChallengeStreakStep]_vars

\* A challenge has been incremented, reset and incremented again by the
\* last call, its best streak staying above; another challenge is still at
\* its first streaks.
C29_Witness ==
    /\ Called(db_call, "update_challenge_streak")
    /\ db_call.args[2]
    /\ \E c \in challenges :
          /\ c.id = db_call.args[1]
          /\ c.best_streak > c.current_streak
          /\ c.current_streak > 0
    /\ \E c \in challenges :
          /\ c.id # db_call.args[1]
          /\ c.best_streak = 0
          /\ c.current_streak = 0


====
